---- MODULE Spec2Model ----
(***************************************************************************)
(* State-machine model of the Game component (components/Game.tsx): the   *)
(* mutable simulation state kept in stateRef, the React state flags, the   *)
(* closures captured by the effects, the pending reload timers, and one    *)
(* action per event handler.                                               *)
(*                                                                         *)
(* Numbers: the program computes in floating point.  The model uses fixed  *)
(* point: lengths in 1/1000 of a map cell, times in milliseconds,          *)
(* velocities in 1/1000 cell per second, unit vectors scaled by 1000.      *)
(***************************************************************************)
EXTENDS Integers, Sequences, FiniteSets, TLC

\* ---------------------------------------------------------------- bounds
\* Wall-clock horizon of a run (ms).
MaxTime == 3300
\* The gap between two animation frames the scheduler may deliver (ms).
FrameGap == 1300
\* Number of restarts explored in one run.
MaxRestarts == 1
\* Number of reload completions that may be pending at once.
MaxTimers == 2
\* Largest enemy health the kill rule is applied to.
MaxEnemyHealth == 100
\* A gap between two animation frames shorter than the attack cooldowns (ms).
ShortGap == 600
\* Vertical mouse travel of one mousemove event (pixels).
PitchStep == 160
MaxMarch == 60
\* Animation-frame requests made in a session.
MaxRequests == 6
ColStride == 16

\* ------------------------------------------------------ fixed-point scale
U == 1000

Min(a, b) == IF a < b THEN a ELSE b
Max(a, b) == IF a > b THEN a ELSE b
Abs(a) == IF a < 0 THEN 0 - a ELSE a
\* JavaScript number division, rounded toward zero in fixed point.
Div(a, b) == IF a >= 0 THEN a \div b ELSE 0 - ((0 - a) \div b)

RECURSIVE SqrtIter(_, _, _)
SqrtIter(n, lo, hi) ==
  IF lo >= hi THEN lo
  ELSE LET mid == (lo + hi + 1) \div 2
       IN IF mid * mid <= n THEN SqrtIter(n, mid, hi) ELSE SqrtIter(n, lo, mid - 1)
\* Math.sqrt on fixed-point squares: the floor of the square root.
Sqrt(n) == SqrtIter(n, 0, 46340)

\* --------------------------------------------- constants.ts (not in src/)
CLIP_SIZE == 10
MAX_RESERVE == 30
START_AMMO == 10
START_RESERVE == 20
RELOAD_TIME == 2000
MAX_ENEMIES == 2
SPAWN_INTERVAL == 2000
MOVE_SPEED == 3000
SCREEN_HEIGHT == 480
SCREEN_WIDTH == 640
MapSize == 24
\* WORLD_MAP[i][j]: a walled square room with one pillar block; 0 = empty.
WORLD_MAP(i, j) ==
  IF i = 0 \/ j = 0 \/ i = MapSize - 1 \/ j = MapSize - 1 THEN 1
  ELSE IF i \in 10..11 /\ j \in 5..6 THEN 2
  ELSE 0
SPAWN_POINTS == << [x |-> 16 * U, y |-> 12 * U], [x |-> 19 * U, y |-> 12 * U] >>

\* ------------------------------------------------------- Game.tsx/types.ts
GRAVITY == 25000
JUMP_FORCE == 8500
ENEMY_SPEED == 2500
AGGRO_RANGE == 12000
ATTACK_RANGE == 1000
RANGED_RANGE == 9000
ITEM_LIFETIME == 5000
PICKUP_RADIUS == 800
HIT_WIDTH == 500
SPAWN_MIN_DIST == 5000
MELEE_COOLDOWN == 1000
LOS_STEPS == 25
BODY_DAMAGE == 40
HEAD_DAMAGE == 100
HEAL_AMOUNT == 30
MAX_HEALTH == 100
DT_MAX == 100
IDLE == 0
CHASE == 1
HEALTH_ORB == 50
AMMO_BOX == 51
Difficulty == {"EASY", "MEDIUM", "HARD"}
\* The value of map[i]?.[j] when i or j is outside the grid.
undefined == -1

damageMelee(d) == IF d = "MEDIUM" THEN 20 ELSE IF d = "HARD" THEN 35 ELSE 10
damageRanged(d) == IF d = "MEDIUM" THEN 10 ELSE IF d = "HARD" THEN 20 ELSE 5
shootCooldown(d) == IF d = "MEDIUM" THEN 1800 ELSE IF d = "HARD" THEN 1200 ELSE 2500

\* map[Math.floor(x)]?.[Math.floor(y)]
MapAt(x, y) ==
  LET i == x \div U
      j == y \div U
  IN IF i \in 0..(MapSize - 1) /\ j \in 0..(MapSize - 1) THEN WORLD_MAP(i, j) ELSE undefined

\* `cell > 0` and `cell === 0` on a possibly undefined cell.
IsWall(c) == c # undefined /\ c > 0
\* A collision test that lets a move leave the grid.
IsEmptyOrOutside(c) == c = undefined \/ c = 0
IsEmpty(c) == c # undefined /\ c = 0

createInitialPlayer ==
  [pos |-> [x |-> 22 * U, y |-> 12 * U], dir |-> [x |-> 0 - U, y |-> 0],
   health |-> 100, ammo |-> START_AMMO, ammoReserve |-> START_RESERVE,
   z |-> 0, vz |-> 0, pitch |-> 0]

VARIABLES
  now,             \* performance.now() / the animation timestamp (ms)
  difficulty,      \* the difficulty prop, fixed for the session
  player, enemies, items, particles, lastTime, score,   \* stateRef.current
  isReloading, isGameOver, isPaused, isInfiniteAmmo,    \* React state
  keyEnv,          \* state captured by the keydown effect's closures
  tickEnv,         \* state captured by the tick effect's closure
  timers,          \* pending reload completions, oldest first
  keys,            \* keys.current: the movement codes currently down
  lastSpawnTime, enemyIdCounter, itemIdCounter,
  pointerLocked,   \* document.pointerLockElement === canvas
  restarts,        \* number of restarts so far
  events,          \* sound events emitted by the last handler, in order
  call             \* a function applied on its own: its arguments and result

vars == << now, difficulty, player, enemies, items, particles, lastTime, score,
           isReloading, isGameOver, isPaused, isInfiniteAmmo, keyEnv, tickEnv,
           timers, keys, lastSpawnTime, enemyIdCounter, itemIdCounter,
           pointerLocked, restarts, events, call >>

\* The mutable machine as one value, so that handlers compose.
Cur ==
  [player |-> player, enemies |-> enemies, items |-> items, particles |-> particles,
   lastTime |-> lastTime, score |-> score, isReloading |-> isReloading,
   isGameOver |-> isGameOver, isPaused |-> isPaused, isInfiniteAmmo |-> isInfiniteAmmo,
   timers |-> timers, keys |-> keys, lastSpawnTime |-> lastSpawnTime,
   enemyIdCounter |-> enemyIdCounter, itemIdCounter |-> itemIdCounter,
   pointerLocked |-> pointerLocked, restarts |-> restarts, events |-> << >>]

\* What a render makes the closures of a handler see.
FreshEnv(m) ==
  [isReloading |-> m.isReloading, isInfiniteAmmo |-> m.isInfiniteAmmo,
   isGameOver |-> m.isGameOver, isPaused |-> m.isPaused]

\* The keydown effect re-subscribes only when isGameOver changes.
KeyEnvAfter(m) == IF m.isGameOver # isGameOver THEN FreshEnv(m) ELSE keyEnv
\* The tick effect re-subscribes only when isPaused changes.
TickEnvAfter(m) == IF m.isPaused # isPaused THEN FreshEnv(m) ELSE tickEnv

\* The handler's writes, then the render they cause and its effects.
Commit(m) ==
  /\ player' = m.player
  /\ enemies' = m.enemies
  /\ items' = m.items
  /\ particles' = m.particles
  /\ lastTime' = m.lastTime
  /\ score' = m.score
  /\ isReloading' = m.isReloading
  /\ isGameOver' = m.isGameOver
  /\ isPaused' = m.isPaused
  /\ isInfiniteAmmo' = m.isInfiniteAmmo
  /\ timers' = m.timers
  /\ keys' = m.keys
  /\ lastSpawnTime' = m.lastSpawnTime
  /\ enemyIdCounter' = m.enemyIdCounter
  /\ itemIdCounter' = m.itemIdCounter
  /\ pointerLocked' = m.pointerLocked
  /\ restarts' = m.restarts
  /\ events' = m.events
  /\ keyEnv' = KeyEnvAfter(m)
  /\ tickEnv' = TickEnvAfter(m)
  /\ UNCHANGED << difficulty, call >>

\* No function is being applied on its own.
NoCall == [fn |-> "none"]

MountEnv ==
  [isReloading |-> FALSE, isInfiniteAmmo |-> FALSE, isGameOver |-> FALSE, isPaused |-> FALSE]

\* The state after construction (first render, effects run).
InitFresh ==
  /\ now = 0
  /\ difficulty \in Difficulty
  /\ player = createInitialPlayer
  /\ enemies = << >>
  /\ items = << >>
  /\ particles = << >>
  /\ lastTime = 0
  /\ score = 0
  /\ isReloading = FALSE
  /\ isGameOver = FALSE
  /\ isPaused = FALSE
  /\ isInfiniteAmmo = FALSE
  /\ keyEnv = MountEnv
  /\ tickEnv = MountEnv
  /\ timers = << >>
  /\ keys = {}
  /\ lastSpawnTime = 0
  /\ enemyIdCounter = 0
  /\ itemIdCounter = 0
  /\ pointerLocked = FALSE
  /\ restarts = 0
  /\ events = << >>
  /\ call = NoCall

\* Clip and reserve a first session can hold after some shots, reloads and pickups.
WeaponStates ==
  { [ammo |-> 3, ammoReserve |-> 20],
    [ammo |-> 3, ammoReserve |-> 25],
    [ammo |-> 3, ammoReserve |-> 2] }

\* The guard that spawned at SPAWN_POINTS[1] and chased the player down to
\* melee range; the player has since stepped toward it (one frame of KeyW).
Engaged(h) ==
  [id |-> 1, pos |-> [x |-> 21 * U, y |-> 12 * U], state |-> CHASE, health |-> h,
   lastAttackTime |-> 0]

\* Later in a first session, time counted from this moment: the first guard has
\* just attacked from melee range, and the next spawn is due.
InitEngaged ==
  /\ now = 0
  /\ difficulty \in Difficulty
  /\ \E w \in WeaponStates, h \in {20} :
       player = [createInitialPlayer EXCEPT !.pos = [x |-> 21700, y |-> 12 * U],
                                            !.health = h, !.ammo = w.ammo,
                                            !.ammoReserve = w.ammoReserve]
  /\ \E eh \in {20} : enemies = << Engaged(eh) >>
  /\ items = << >>
  /\ particles = << >>
  /\ lastTime = 0
  /\ score = 0
  /\ isReloading = FALSE
  /\ isGameOver = FALSE
  /\ isPaused = FALSE
  /\ isInfiniteAmmo = FALSE
  /\ keyEnv = MountEnv
  /\ tickEnv = MountEnv
  /\ timers = << >>
  /\ keys = {}
  /\ lastSpawnTime = 0 - SPAWN_INTERVAL
  /\ enemyIdCounter = 1
  /\ itemIdCounter = 0
  /\ pointerLocked = TRUE
  /\ restarts = 0
  /\ events = << >>
  /\ call = NoCall

Init == InitFresh \/ InitEngaged

\* ------------------------------------------------------------ hasLineOfSight
\* The i-th sample of the march from p1 to p2: p1 + i * (p2 - p1) / steps.
LosSample(p1, p2, i) ==
  [x |-> (LOS_STEPS * p1.x + i * (p2.x - p1.x)) \div LOS_STEPS,
   y |-> (LOS_STEPS * p1.y + i * (p2.y - p1.y)) \div LOS_STEPS]

\* A wall test that takes the empty cell for a wall.
LosBlockedFromZero(s) == MapAt(s.x, s.y) # undefined /\ MapAt(s.x, s.y) >= 0

\* A sample blocks sight when `map[floor(cx)]?.[floor(cy)] > 0`.
LosBlocked(s) == IsWall(MapAt(s.x, s.y))

hasLineOfSight(p1, p2) == \A i \in 1..LOS_STEPS : ~LosBlocked(LosSample(p1, p2, i))

\* -------------------------------------------------------------------- reload
\* The early returns of reload(), on the state its closure captured.
ReloadIgnored(p, env) ==
  \/ env.isInfiniteAmmo
  \/ env.isReloading
  \/ p.ammo = CLIP_SIZE
  \/ p.ammoReserve = 0
  \/ p.health <= 0

\* reload(): enter RELOADING and schedule the completion.  The callback keeps
\* the player object of this moment (stale |-> FALSE until a restart replaces it).
reload(m, env) ==
  IF ReloadIgnored(m.player, env) THEN m
  ELSE [m EXCEPT !.isReloading = TRUE,
                 !.events = Append(@, "reload"),
                 !.timers = Append(@, [deadline |-> now + RELOAD_TIME, stale |-> FALSE])]

\* A completion that fills the clip whatever the reserve holds.
ReloadAvailableNeeded(p) == CLIP_SIZE - p.ammo

\* The rounds the completion callback moves from reserve to clip.
ReloadAvailable(p) == Min(CLIP_SIZE - p.ammo, p.ammoReserve)

\* A completion that fills the clip and leaves the reserve as it is.
ReloadTransferFree(p) == [p EXCEPT !.ammo = @ + ReloadAvailable(p)]

\* The completion callback's writes to the player object it captured.
ReloadTransfer(p) ==
  [p EXCEPT !.ammo = @ + ReloadAvailable(p), !.ammoReserve = @ - ReloadAvailable(p)]

\* A completion callback that forgets setIsReloading(false).
reloadCompleteStillReloading(m, t) ==
  [m EXCEPT !.player = IF t.stale THEN @ ELSE ReloadTransfer(@),
            !.timers = Tail(@)]

\* The completion callback: a callback whose player object was replaced by a
\* restart writes to the old object, and still calls setIsReloading(false).
reloadComplete(m, t) ==
  [m EXCEPT !.player = IF t.stale THEN @ ELSE ReloadTransfer(@),
            !.isReloading = FALSE,
            !.timers = Tail(@)]

\* --------------------------------------------------------------------- shoot
Infinity == 1073741823

Dist(dx, dy) == Sqrt(dx * dx + dy * dy)

\* Projection of an enemy at distance dist, in 1/1000 pixel.
spriteHeight(dist) == Div(SCREEN_HEIGHT * U * U, dist)
vOffset(p, dist) == p.pitch * U + Div(p.z * SCREEN_HEIGHT * U, dist)
drawStartY(p, dist) == Div(0 - spriteHeight(dist), 2) + (SCREEN_HEIGHT * U) \div 2 + vOffset(p, dist)
drawEndY(p, dist) == Div(spriteHeight(dist), 2) + (SCREEN_HEIGHT * U) \div 2 + vOffset(p, dist)
crosshairY == (SCREEN_HEIGHT * U) \div 2

\* crosshairY >= drawStartY && crosshairY <= drawEndY
InVerticalSpan(p, dist) ==
  /\ dist > 0
  /\ crosshairY >= drawStartY(p, dist)
  /\ crosshairY <= drawEndY(p, dist)

\* A head zone that reaches down to the middle of the sprite.
IsHeadAtUpperHalf(p, dist) ==
  2 * (crosshairY - drawStartY(p, dist)) <= drawEndY(p, dist) - drawStartY(p, dist)

\* hitRelativeY < 0.25, with hitRelativeY = (crosshairY - drawStartY) / (drawEndY - drawStartY)
IsHeadAt(p, dist) ==
  4 * (crosshairY - drawStartY(p, dist)) < drawEndY(p, dist) - drawStartY(p, dist)

EnemyDist(p, e) == Dist(e.pos.x - p.pos.x, e.pos.y - p.pos.y)
EnemyDot(p, e) == (e.pos.x - p.pos.x) * p.dir.x + (e.pos.y - p.pos.y) * p.dir.y
EnemyPerp(p, e) == Abs((e.pos.x - p.pos.x) * p.dir.y - (e.pos.y - p.pos.y) * p.dir.x)

\* An aim test that does not skip the dead.
InAimAnyHealth(p, e) ==
  /\ EnemyDot(p, e) > 0
  /\ EnemyPerp(p, e) < HIT_WIDTH * U
  /\ hasLineOfSight(p.pos, e.pos)

\* In front, within the hit width of the aim ray, and in sight.
InAim(p, e) ==
  /\ e.health > 0
  /\ EnemyDot(p, e) > 0
  /\ EnemyPerp(p, e) < HIT_WIDTH * U
  /\ hasLineOfSight(p.pos, e.pos)

\* A target test that forgets the vertical span.
HittableAnyHeight(p, e) == InAim(p, e)

\* A target test that does not skip the dead.
HittableWhenDead(p, e) == InAimAnyHealth(p, e) /\ InVerticalSpan(p, EnemyDist(p, e))

\* The test an enemy passes inside the forEach of shoot() before `dist < closestDist`.
Hittable(p, e) == InAim(p, e) /\ InVerticalSpan(p, EnemyDist(p, e))

\* The forEach of shoot(): index of closestEnemy (0 for null), first of the nearest.
RECURSIVE closestFrom(_, _, _, _, _)
closestFrom(p, es, i, best, bestDist) ==
  IF i > Len(es) THEN best
  ELSE IF Hittable(p, es[i]) /\ EnemyDist(p, es[i]) < bestDist
       THEN closestFrom(p, es, i + 1, i, EnemyDist(p, es[i]))
       ELSE closestFrom(p, es, i + 1, best, bestDist)

closestEnemy(p, es) == closestFrom(p, es, 1, 0, Infinity)

hitDamage(isHead) == IF isHead THEN HEAD_DAMAGE ELSE BODY_DAMAGE
\* A score that pays a headshot kill like a body kill.
killScoreFlat(isHead) == 1
killScore(isHead) == IF isHead THEN 2 ELSE 1
\* A kill test that lets an enemy of health 0 live.
IsKillStrict(h) == h < 0

\* target.health <= 0 after the damage
IsKill(h) == h <= 0

\* `if (closestEnemy) { ... }`: damage, then kill (score, item) or aggro.
resolveHit(m, rnd) ==
  LET k == closestEnemy(m.player, m.enemies)
  IN IF k = 0 THEN m
     ELSE LET e == m.enemies[k]
              isHead == IsHeadAt(m.player, EnemyDist(m.player, e))
              h == e.health - hitDamage(isHead)
          IN IF IsKill(h)
             THEN [m EXCEPT !.enemies[k].health = h,
                            !.events = Append(@, "enemyDeath"),
                            !.score = @ + killScore(isHead),
                            !.itemIdCounter = @ + 1,
                            !.items = Append(@, [id |-> m.itemIdCounter + 1,
                                                 pos |-> e.pos, textureId |-> rnd,
                                                 spawnTime |-> now])]
             ELSE [m EXCEPT !.enemies[k].health = h,
                            !.enemies[k].state = CHASE,
                            !.events = Append(@, "enemyHit")]

\* A dry-fire test that is off by one.
IsDryFireStrict(p, env) == ~env.isInfiniteAmmo /\ p.ammo < 0

\* `player.ammo <= 0` with infinite-ammo off: the dry-fire branch.
IsDryFire(p, env) == ~env.isInfiniteAmmo /\ p.ammo <= 0

\* A shot that spends a round even with infinite-ammo on.
spendRoundAlways(p, env) == [p EXCEPT !.ammo = @ - 1]

\* `player.ammo--` unless infinite-ammo.
spendRound(p, env) == IF env.isInfiniteAmmo THEN p ELSE [p EXCEPT !.ammo = @ - 1]

\* shoot(), on the state its closure captured.
shoot(m, env, rnd) ==
  IF m.player.health <= 0 \/ env.isReloading THEN m
  ELSE IF IsDryFire(m.player, env)
       THEN reload([m EXCEPT !.events = Append(@, "dryFire")], env)
       ELSE LET m1 == [m EXCEPT !.player = spendRound(@, env)]
                m2 == IF ~env.isInfiniteAmmo /\ m1.player.ammo = 0 THEN reload(m1, env) ELSE m1
            IN resolveHit([m2 EXCEPT !.events = Append(@, "shoot")], rnd)

\* ------------------------------------------------------------- updatePhysics
\* Jump and gravity: vz -= GRAVITY*dt; z += vz*dt; land at z < 0.
vertical(p, dt) ==
  IF p.z > 0 \/ p.vz # 0
  THEN LET vz1 == p.vz - Div(GRAVITY * dt, 1000)
           z1 == p.z + Div(vz1 * dt, 1000)
       IN IF z1 < 0 THEN [p EXCEPT !.z = 0, !.vz = 0] ELSE [p EXCEPT !.z = z1, !.vz = vz1]
  ELSE p

RemoveAt(s, i) == SubSeq(s, 1, i - 1) \o SubSeq(s, i + 1, Len(s))

\* An expiry test that already fires at the lifetime itself.
itemExpiredAtLimit(it, t) == t - it.spawnTime >= ITEM_LIFETIME
itemExpired(it, t) == t - it.spawnTime > ITEM_LIFETIME
itemInReach(p, it) == Dist(p.pos.x - it.pos.x, p.pos.y - it.pos.y) < PICKUP_RADIUS
\* A heal without the health cap.
healedUncapped(h) == h + HEAL_AMOUNT
healed(h) == Min(MAX_HEALTH, h + HEAL_AMOUNT)
\* An ammo pickup without the reserve cap.
replenishedUncapped(r) == r + CLIP_SIZE
replenished(r) == Min(MAX_RESERVE, r + CLIP_SIZE)

\* The item loop, from index i down to 1.
RECURSIVE itemPass(_, _, _)
itemPass(m, i, t) ==
  IF i < 1 THEN m
  ELSE LET it == m.items[i]
       IN IF itemExpired(it, t)
          THEN itemPass([m EXCEPT !.items = RemoveAt(@, i)], i - 1, t)
          ELSE IF itemInReach(m.player, it)
               THEN IF it.textureId = HEALTH_ORB
                    THEN itemPass([m EXCEPT !.player.health = healed(@),
                                            !.events = Append(@, "heal"),
                                            !.items = RemoveAt(@, i)], i - 1, t)
                    ELSE itemPass([m EXCEPT !.player.ammoReserve = replenished(@),
                                            !.events = Append(@, "ammoPickup"),
                                            !.items = RemoveAt(@, i)], i - 1, t)
               ELSE itemPass(m, i - 1, t)

\* The input-relative direction built from the four movement keys.
moveDir(p, ks) ==
  [x |-> (IF "KeyW" \in ks THEN p.dir.x ELSE 0) - (IF "KeyS" \in ks THEN p.dir.x ELSE 0)
         - (IF "KeyA" \in ks THEN p.dir.y ELSE 0) + (IF "KeyD" \in ks THEN p.dir.y ELSE 0),
   y |-> (IF "KeyW" \in ks THEN p.dir.y ELSE 0) - (IF "KeyS" \in ks THEN p.dir.y ELSE 0)
         + (IF "KeyA" \in ks THEN p.dir.x ELSE 0) - (IF "KeyD" \in ks THEN p.dir.x ELSE 0)]

\* An X move that is taken whatever the destination cell holds.
tryXUnchecked(pos, sx) == [pos EXCEPT !.x = @ + sx]

\* One axis of a move: taken only when the destination cell is `=== 0`.
tryX(pos, sx) == IF IsEmpty(MapAt(pos.x + sx, pos.y)) THEN [pos EXCEPT !.x = @ + sx] ELSE pos
tryY(pos, sy) == IF IsEmpty(MapAt(pos.x, pos.y + sy)) THEN [pos EXCEPT !.y = @ + sy] ELSE pos

\* A translation that is taken whole or not at all: no sliding.
movePlayerWhole(p, ks, dt) ==
  LET d == moveDir(p, ks)
      len == Dist(d.x, d.y)
      dist == Div(MOVE_SPEED * dt, 1000)
  IN IF len > 0 /\ IsEmpty(MapAt(p.pos.x + Div(d.x * dist, len), p.pos.y + Div(d.y * dist, len)))
     THEN [p EXCEPT !.pos = [x |-> @.x + Div(d.x * dist, len), y |-> @.y + Div(d.y * dist, len)]]
     ELSE p

\* Player translation: X first, then Y from the updated X.
movePlayer(p, ks, dt) ==
  LET d == moveDir(p, ks)
      len == Dist(d.x, d.y)
      dist == Div(MOVE_SPEED * dt, 1000)
  IN IF len > 0
     THEN [p EXCEPT !.pos = tryY(tryX(@, Div(d.x * dist, len)), Div(d.y * dist, len))]
     ELSE p

updatePhysics(m, dt, t) ==
  LET m1 == [m EXCEPT !.player = vertical(@, dt)]
      m2 == itemPass(m1, Len(m1.items), t)
  IN [m2 EXCEPT !.player = movePlayer(@, m.keys, dt)]

\* ------------------------------------------------------------------ updateAI
\* A filter that keeps the dead.
AliveOrDead(e) == TRUE
Alive(e) == e.health > 0

\* An aggro test that forgets line of sight.
aggroUnseen(e, dist, canSee) ==
  IF e.state = IDLE /\ dist < AGGRO_RANGE THEN [e EXCEPT !.state = CHASE] ELSE e

\* IDLE -> CHASE when the player is within aggro range and in sight.
aggro(e, dist, canSee) ==
  IF e.state = IDLE /\ dist < AGGRO_RANGE /\ canSee THEN [e EXCEPT !.state = CHASE] ELSE e

\* A chase step that is also taken within melee range.
chaseMoveInMelee(e, dx, dy, dist, dt) ==
  LET step == Div(ENEMY_SPEED * dt, 1000)
  IN [e EXCEPT !.pos = tryY(tryX(@, Div(dx * step, dist)), Div(dy * step, dist))]

\* The chase step toward the player, X first, then Y.
chaseMove(e, dx, dy, dist, dt) ==
  IF dist > ATTACK_RANGE
  THEN LET step == Div(ENEMY_SPEED * dt, 1000)
       IN [e EXCEPT !.pos = tryY(tryX(@, Div(dx * step, dist)), Div(dy * step, dist))]
  ELSE e

\* A melee test that forgets the cooldown.
meleeDueAlways(e, dist, t) == dist <= ATTACK_RANGE
meleeDue(e, dist, t) == dist <= ATTACK_RANGE /\ t - e.lastAttackTime > MELEE_COOLDOWN
rangedDue(e, dist, canSee, t, diff) ==
  /\ dist > ATTACK_RANGE
  /\ dist < RANGED_RANGE
  /\ canSee
  /\ t - e.lastAttackTime > shootCooldown(diff)

\* player.health -= damage
hurt(h, dmg) == h - dmg

\* The body of the forEach for enemy i.
aiStep(m, i, dt, t, diff) ==
  LET e0 == m.enemies[i]
      dx == m.player.pos.x - e0.pos.x
      dy == m.player.pos.y - e0.pos.y
      dist == Dist(dx, dy)
      canSee == hasLineOfSight(e0.pos, m.player.pos)
      e1 == aggro(e0, dist, canSee)
  IN IF e1.state # CHASE THEN [m EXCEPT !.enemies[i] = e1]
     ELSE LET e2 == chaseMove(e1, dx, dy, dist, dt)
          IN IF meleeDue(e2, dist, t)
             THEN [m EXCEPT !.enemies[i] = [e2 EXCEPT !.lastAttackTime = t],
                            !.player.health = hurt(@, damageMelee(diff)),
                            !.events = Append(@, "playerDamage")]
             ELSE IF rangedDue(e2, dist, canSee, t, diff)
                  THEN [m EXCEPT !.enemies[i] = [e2 EXCEPT !.lastAttackTime = t],
                                 !.player.health = hurt(@, damageRanged(diff)),
                                 !.events = @ \o << "enemyShoot", "playerDamage" >>]
                  ELSE [m EXCEPT !.enemies[i] = e2]

RECURSIVE aiLoop(_, _, _, _, _)
aiLoop(m, i, dt, t, diff) ==
  IF i > Len(m.enemies) THEN m ELSE aiLoop(aiStep(m, i, dt, t, diff), i + 1, dt, t, diff)

\* An AI whose enemies run twice as fast on HARD.
updateAIHardRuns(m, dt, t, diff) ==
  aiLoop([m EXCEPT !.enemies = SelectSeq(@, Alive)], 1,
         IF diff = "HARD" THEN 2 * dt ELSE dt, t, diff)

updateAI(m, dt, t, diff) ==
  aiLoop([m EXCEPT !.enemies = SelectSeq(@, Alive)], 1, dt, t, diff)

\* ---------------------------------------------------------------- spawnEnemy
\* A spawn test without the population cap.
spawnRefusedNoCap(m, t, point) ==
  \/ t - m.lastSpawnTime < SPAWN_INTERVAL
  \/ Dist(point.x - m.player.pos.x, point.y - m.player.pos.y) < SPAWN_MIN_DIST

spawnRefused(m, t, point) ==
  \/ Len(m.enemies) >= MAX_ENEMIES
  \/ t - m.lastSpawnTime < SPAWN_INTERVAL
  \/ Dist(point.x - m.player.pos.x, point.y - m.player.pos.y) < SPAWN_MIN_DIST

spawnEnemy(m, t, point) ==
  IF spawnRefused(m, t, point) THEN m
  ELSE [m EXCEPT !.enemyIdCounter = @ + 1,
                 !.enemies = Append(@, [id |-> m.enemyIdCounter + 1, pos |-> point,
                                        state |-> IDLE, health |-> 100, lastAttackTime |-> t]),
                 !.lastSpawnTime = t]

\* ---------------------------------------------------------------------- tick
PosLife(q) == q.life > 0
particleStep(ps, dt) == SelectSeq([i \in 1..Len(ps) |-> [ps[i] EXCEPT !.life = @ - 2 * dt]], PosLife)

\* A time step without the clamp.
frameDtUnclamped(time, last) == time - last
\* dt = Math.min(0.1, (time - lastTime) / 1000), in ms.
frameDt(time, last) == Min(DT_MAX, time - last)

tick(m, env, time, point, diff) ==
  IF env.isPaused THEN [m EXCEPT !.lastTime = time]
  ELSE LET dt == frameDt(time, m.lastTime)
           m0 == [m EXCEPT !.lastTime = time]
       IN IF m0.player.health > 0
          THEN LET m1 == spawnEnemy(updateAI(updatePhysics(m0, dt, time), dt, time, diff), time, point)
               IN [m1 EXCEPT !.particles = particleStep(@, dt)]
          ELSE IF ~env.isGameOver THEN [m0 EXCEPT !.isGameOver = TRUE] ELSE m0

\* ------------------------------------------------------ the other handlers
\* A jump that can be started in the air.
jumpInAir(p) == [p EXCEPT !.vz = JUMP_FORCE]
jump(p) == IF p.z = 0 THEN [p EXCEPT !.vz = JUMP_FORCE] ELSE p

\* A restart that forgets setIsReloading(false).
restartGameStillReloading(m) ==
  [m EXCEPT !.player = createInitialPlayer, !.enemies = << >>, !.items = << >>,
            !.particles = << >>, !.lastTime = now, !.score = 0, !.lastSpawnTime = now,
            !.isGameOver = FALSE, !.isPaused = FALSE,
            !.timers = [i \in 1..Len(m.timers) |-> [m.timers[i] EXCEPT !.stale = TRUE]],
            !.pointerLocked = TRUE, !.restarts = @ + 1]

restartGame(m) ==
  [m EXCEPT !.player = createInitialPlayer, !.enemies = << >>, !.items = << >>,
            !.particles = << >>, !.lastTime = now, !.score = 0, !.lastSpawnTime = now,
            !.isGameOver = FALSE, !.isPaused = FALSE, !.isReloading = FALSE,
            !.timers = [i \in 1..Len(m.timers) |-> [m.timers[i] EXCEPT !.stale = TRUE]],
            !.pointerLocked = TRUE, !.restarts = @ + 1]

MoveKeys == {"KeyW", "KeyS", "KeyA", "KeyD"}

handleKeyDown(m, env, code) ==
  LET m1 == IF code = "Escape" THEN [m EXCEPT !.isPaused = ~@] ELSE m
      m2 == IF code = "KeyR" THEN reload(m1, env) ELSE m1
      m3 == IF code = "Space" THEN [m2 EXCEPT !.player = jump(@)] ELSE m2
  IN [m3 EXCEPT !.keys = @ \cup ({code} \cap MoveKeys)]

handleKeyUp(m, code) == [m EXCEPT !.keys = @ \ {code}]

\* A quarter turn per unit of q: the rotation by rotX for rotX = q * pi/2.
rotate(d, q) ==
  IF q = 1 THEN [x |-> 0 - d.y, y |-> d.x]
  ELSE IF q = 2 THEN [x |-> 0 - d.x, y |-> 0 - d.y]
  ELSE IF q = 3 THEN [x |-> d.y, y |-> 0 - d.x]
  ELSE d

maxPitch == Div(SCREEN_HEIGHT * 2, 3)
clampPitch(v) == Max(0 - maxPitch, Min(maxPitch, v))

handleMouseMove(m, env, q, movementY) ==
  IF m.player.health <= 0 \/ env.isPaused THEN m
  ELSE IF m.pointerLocked
       THEN [m EXCEPT !.player.dir = rotate(@, q),
                      !.player.pitch = clampPitch(@ - movementY)]
       ELSE m

handleMouseDown(m, env, button, rnd) ==
  IF m.player.health <= 0 \/ env.isPaused THEN m
  ELSE IF ~m.pointerLocked THEN [m EXCEPT !.pointerLocked = TRUE]
       ELSE IF button = 0 THEN shoot(m, env, rnd) ELSE m

handleLockChange(m, env) ==
  LET m1 == [m EXCEPT !.pointerLocked = FALSE]
  IN IF ~env.isGameOver THEN [m1 EXCEPT !.isPaused = TRUE] ELSE m1

\* ------------------------------------------------------------------- actions
\* An animation frame.  Time advances to the frame, but not past the deadline
\* of a pending reload timer: the timer callback runs at its deadline.
Tick(gap, point) ==
  LET d == IF timers # << >> /\ timers[1].deadline - now < gap
           THEN timers[1].deadline - now ELSE gap
  IN /\ d > 0
     /\ now + d <= MaxTime
     /\ now' = now + d
     /\ Commit(tick(Cur, tickEnv, now + d, point, difficulty))

KeyDown(code) ==
  /\ Len(timers) < MaxTimers
  /\ now' = now
  /\ Commit(handleKeyDown(Cur, keyEnv, code))

KeyUp(code) == code \in keys /\ now' = now /\ Commit(handleKeyUp(Cur, code))

\* The mouse effect depends on every state its closures read, so they are fresh.
MouseDown(button, rnd) ==
  /\ Len(timers) < MaxTimers
  /\ now' = now
  /\ Commit(handleMouseDown(Cur, FreshEnv(Cur), button, rnd))

MouseMove(q, movementY) == now' = now /\ Commit(handleMouseMove(Cur, FreshEnv(Cur), q, movementY))

\* The browser releases the pointer lock.
PointerLockChange == pointerLocked /\ now' = now /\ Commit(handleLockChange(Cur, FreshEnv(Cur)))

\* The setTimeout callback of the oldest pending reload.
ReloadTimeout ==
  /\ timers # << >>
  /\ now >= timers[1].deadline
  /\ now' = now
  /\ Commit(reloadComplete(Cur, timers[1]))

\* The Redeploy button, shown on the game-over screen.
ClickRestart ==
  /\ isGameOver
  /\ restarts < MaxRestarts
  /\ now' = now
  /\ Commit(restartGame(Cur))

\* The pause menu (covered by the game-over screen when both are shown).
ClickResume == isPaused /\ ~isGameOver /\ now' = now /\ Commit([Cur EXCEPT !.isPaused = FALSE])

ClickInfiniteAmmo ==
  isPaused /\ ~isGameOver /\ now' = now /\ Commit([Cur EXCEPT !.isInfiniteAmmo = ~@])

\* ------------------------------------------------------------ specifications
SpawnPointSet == {SPAWN_POINTS[i] : i \in 1..Len(SPAWN_POINTS)}
ItemKinds == {HEALTH_ORB, AMMO_BOX}

\* The combat session: frames, fire, the reload key, reload completions, restart.
Next ==
  \/ \E point \in SpawnPointSet : Tick(FrameGap, point)
  \/ \E code \in {"KeyR"} : KeyDown(code)
  \/ \E rnd \in ItemKinds : MouseDown(0, rnd)
  \/ ReloadTimeout
  \/ ClickRestart

Spec == Init /\ [][Next]_vars

\* The session with the pause menu: pause, the infinite-ammo switch, resume.
NextSettings ==
  \/ \E point \in SpawnPointSet : Tick(FrameGap, point)
  \/ \E code \in {"Escape"} : KeyDown(code)
  \/ \E rnd \in ItemKinds : MouseDown(0, rnd)
  \/ ReloadTimeout
  \/ ClickResume
  \/ ClickInfiniteAmmo

SpecSettings == Init /\ [][NextSettings]_vars

\* ------------------------------------------------------ aiming at two guards
\* Heights of a jump: on the ground, and near the top (three frames of 100 ms).
AimHeights == { [z |-> 0, vz |-> 0], [z |-> 1050, vz |-> 1000] }
\* Where the nearer guard stands across the aim ray: on it, inside and outside
\* the hit width.
NearOffsets == {0, 400, 600}

Guard(id, x, y, h) ==
  [id |-> id, pos |-> [x |-> x, y |-> y], state |-> CHASE, health |-> h, lastAttackTime |-> 0]

\* One instant of a session: the player at the start position, in the air or
\* not, a guard one cell ahead and a second guard four cells ahead.
InitAim ==
  /\ now = 0
  /\ difficulty = "MEDIUM"
  /\ \E a \in AimHeights : player = [createInitialPlayer EXCEPT !.z = a.z, !.vz = a.vz]
  /\ \E off \in NearOffsets :
       enemies = << Guard(1, 21 * U, 12 * U + off, 100), Guard(2, 18 * U, 12 * U, 100) >>
  /\ items = << >>
  /\ particles = << >>
  /\ lastTime = 0
  /\ score = 0
  /\ isReloading = FALSE
  /\ isGameOver = FALSE
  /\ isPaused = FALSE
  /\ isInfiniteAmmo = FALSE
  /\ keyEnv = MountEnv
  /\ tickEnv = MountEnv
  /\ timers = << >>
  /\ keys = {}
  /\ lastSpawnTime = 0
  /\ enemyIdCounter = 2
  /\ itemIdCounter = 0
  /\ pointerLocked = TRUE
  /\ restarts = 0
  /\ events = << >>
  /\ call = NoCall

\* Mouse input within that instant: look up or down, turn around, fire.
NextAim ==
  \/ \E q \in {0, 2}, dy \in {0 - PitchStep, 0, PitchStep} : MouseMove(q, dy)
  \/ \E rnd \in ItemKinds : MouseDown(0, rnd)

SpecAim == InitAim /\ [][NextAim]_vars

\* -------------------------------------------------- the kill rule on a health
\* The hit rule as a function of the target's health: one guard of health h one
\* cell ahead, level aim (every shot is a body hit until the guard is dead).
InitKill ==
  /\ now = 0
  /\ difficulty \in Difficulty
  /\ player = createInitialPlayer
  /\ \E h \in 1..MaxEnemyHealth : enemies = << Guard(1, 21 * U, 12 * U, h) >>
  /\ items = << >>
  /\ particles = << >>
  /\ lastTime = 0
  /\ score = 0
  /\ isReloading = FALSE
  /\ isGameOver = FALSE
  /\ isPaused = FALSE
  /\ isInfiniteAmmo = FALSE
  /\ keyEnv = MountEnv
  /\ tickEnv = MountEnv
  /\ timers = << >>
  /\ keys = {}
  /\ lastSpawnTime = 0
  /\ enemyIdCounter = 1
  /\ itemIdCounter = 0
  /\ pointerLocked = TRUE
  /\ restarts = 0
  /\ events = << >>
  /\ call = NoCall

NextKill == \E rnd \in ItemKinds : MouseDown(0, rnd)

SpecKill == InitKill /\ [][NextKill]_vars

\* ------------------------------------------------- hasLineOfSight on its own
\* Coordinates of the end points: outside the grid, in the border wall, in the
\* pillar, in the open room.
SightCoords == {0 - 1500, 500, 5500, 10500, 12500, 22500, 24500}
SightPoints == {[x |-> cx, y |-> cy] : cx \in SightCoords, cy \in SightCoords}

\* The component mounted, and hasLineOfSight about to be called on two points.
InitSight ==
  /\ now = 0
  /\ difficulty = "MEDIUM"
  /\ player = createInitialPlayer
  /\ enemies = << >>
  /\ items = << >>
  /\ particles = << >>
  /\ lastTime = 0
  /\ score = 0
  /\ isReloading = FALSE
  /\ isGameOver = FALSE
  /\ isPaused = FALSE
  /\ isInfiniteAmmo = FALSE
  /\ keyEnv = MountEnv
  /\ tickEnv = MountEnv
  /\ timers = << >>
  /\ keys = {}
  /\ lastSpawnTime = 0
  /\ enemyIdCounter = 0
  /\ itemIdCounter = 0
  /\ pointerLocked = FALSE
  /\ restarts = 0
  /\ events = << >>
  /\ \E a \in SightPoints, b \in SightPoints :
       call = [fn |-> "hasLineOfSight", p1 |-> a, p2 |-> b, done |-> FALSE, ret |-> FALSE]

\* The call returns.
CallSight ==
  /\ call.fn = "hasLineOfSight"
  /\ ~call.done
  /\ call' = [call EXCEPT !.done = TRUE, !.ret = hasLineOfSight(call.p1, call.p2)]
  /\ UNCHANGED << now, difficulty, player, enemies, items, particles, lastTime, score,
                  isReloading, isGameOver, isPaused, isInfiniteAmmo, keyEnv, tickEnv,
                  timers, keys, lastSpawnTime, enemyIdCounter, itemIdCounter,
                  pointerLocked, restarts, events >>

NextSight == CallSight

SpecSight == InitSight /\ [][NextSight]_vars

\* ------------------------------------------- the collision test on its own
\* Coordinates of the mover: in the border wall next to either edge of the
\* grid, next to the border wall, next to the pillar, in the open room.
StepCoords == {100, 1100, 5100, 9900, 12500, 23900}
StepPoints == {[x |-> cx, y |-> cy] : cx \in StepCoords, cy \in StepCoords}
\* The components of a move: 0.3 cell either way, or none.
StepSizes == {0 - 300, 0, 300}

\* The X test and the Y test of a move by (sx, sy) from pos, as the player and
\* the enemies make it.
axisMove(pos, sx, sy) == tryY(tryX(pos, sx), sy)

\* The component mounted, and a move about to be resolved.
InitStep ==
  /\ now = 0
  /\ difficulty = "MEDIUM"
  /\ player = createInitialPlayer
  /\ enemies = << >>
  /\ items = << >>
  /\ particles = << >>
  /\ lastTime = 0
  /\ score = 0
  /\ isReloading = FALSE
  /\ isGameOver = FALSE
  /\ isPaused = FALSE
  /\ isInfiniteAmmo = FALSE
  /\ keyEnv = MountEnv
  /\ tickEnv = MountEnv
  /\ timers = << >>
  /\ keys = {}
  /\ lastSpawnTime = 0
  /\ enemyIdCounter = 0
  /\ itemIdCounter = 0
  /\ pointerLocked = FALSE
  /\ restarts = 0
  /\ events = << >>
  /\ \E a \in StepPoints, sx \in StepSizes, sy \in StepSizes :
       call = [fn |-> "axisMove", p1 |-> a, p2 |-> [x |-> sx, y |-> sy],
               done |-> FALSE, ret |-> a]

\* The move is resolved.
CallStep ==
  /\ call.fn = "axisMove"
  /\ ~call.done
  /\ call' = [call EXCEPT !.done = TRUE, !.ret = axisMove(call.p1, call.p2.x, call.p2.y)]
  /\ UNCHANGED << now, difficulty, player, enemies, items, particles, lastTime, score,
                  isReloading, isGameOver, isPaused, isInfiniteAmmo, keyEnv, tickEnv,
                  timers, keys, lastSpawnTime, enemyIdCounter, itemIdCounter,
                  pointerLocked, restarts, events >>

NextStep == CallStep

SpecStep == InitStep /\ [][NextStep]_vars

\* ------------------------------------------------ Raycaster.castWalls
\* The camera plane of createInitialPlayer; no handler writes it.
PLANE == [x |-> 0, y |-> 660]

\* The screen columns that are cast: every ColStride-th and the last.
Columns == {x \in 0..(SCREEN_WIDTH - 1) : x % ColStride = 0 \/ x = SCREEN_WIDTH - 1}

\* rayDir = dir + plane * cameraX with cameraX = 2x/w - 1, times w/40: in
\* 1/16000 for w = 640.  Every term is a multiple of 40, so this is exact.
rayDir(dir, x) ==
  [x |-> (dir.x * SCREEN_WIDTH + PLANE.x * (2 * x - SCREEN_WIDTH)) \div 40,
   y |-> (dir.y * SCREEN_WIDTH + PLANE.y * (2 * x - SCREEN_WIDTH)) \div 40]

\* sideDist * |rayDir| in 1/1000 cell: the distance to the next grid line.
sideNum(r, p, m) == IF r < 0 THEN p - m * U ELSE (m + 1) * U - p

\* The state of the march of column x before the while loop.  sideDistX is
\* nx / |ray.x| and sideDistY is ny / |ray.y|, a zero divisor being Infinity.
marchStart(pos, dir, x) ==
  LET r == rayDir(dir, x)
  IN [fn |-> "castWalls", p1 |-> pos, p2 |-> dir, col |-> x, ray |-> r,
      mapX |-> pos.x \div U, mapY |-> pos.y \div U,
      nx |-> sideNum(r.x, pos.x, pos.x \div U), ny |-> sideNum(r.y, pos.y, pos.y \div U),
      side |-> 0, wallType |-> 0, steps |-> 0, done |-> FALSE,
      ret |-> [num |-> 0, den |-> 0]]

\* sideDistX < sideDistY
xNearer(c) == c.nx * Abs(c.ray.y) < c.ny * Abs(c.ray.x)

\* One pass of `while (hit === 0)`: the step to the next cell and the hit test
\* `map[mapX] && map[mapX][mapY] > 0`; on a hit, perpWallDist = sideDist -
\* deltaDist as the fraction num / den (in units of w/40 cells).
marchStep(c) ==
  LET c1 == IF xNearer(c)
            THEN [c EXCEPT !.nx = @ + U, !.side = 0,
                           !.mapX = @ + (IF c.ray.x < 0 THEN 0 - 1 ELSE 1)]
            ELSE [c EXCEPT !.ny = @ + U, !.side = 1,
                           !.mapY = @ + (IF c.ray.y < 0 THEN 0 - 1 ELSE 1)]
      c2 == [c1 EXCEPT !.steps = @ + 1]
  IN IF IsWall(MapAt(c2.mapX * U, c2.mapY * U))
     THEN [c2 EXCEPT !.done = TRUE, !.wallType = MapAt(c2.mapX * U, c2.mapY * U),
                     !.ret = IF c2.side = 0
                             THEN [num |-> c2.nx - U, den |-> Abs(c2.ray.x)]
                             ELSE [num |-> c2.ny - U, den |-> Abs(c2.ray.y)]]
     ELSE c2

\* Where the camera stands: in the open room, in a corner of the room, beside
\* the pillar, at the start position, and in a cell of the border wall, which
\* no wall encloses.
CastStands ==
  { [x |-> 12500, y |-> 12500], [x |-> 1500, y |-> 1500], [x |-> 9500, y |-> 5500],
    [x |-> 22 * U, y |-> 12 * U], [x |-> 23500, y |-> 12500] }

\* The component mounted, and the march of one column about to start.
InitCast ==
  /\ now = 0
  /\ difficulty = "MEDIUM"
  /\ player = createInitialPlayer
  /\ enemies = << >>
  /\ items = << >>
  /\ particles = << >>
  /\ lastTime = 0
  /\ score = 0
  /\ isReloading = FALSE
  /\ isGameOver = FALSE
  /\ isPaused = FALSE
  /\ isInfiniteAmmo = FALSE
  /\ keyEnv = MountEnv
  /\ tickEnv = MountEnv
  /\ timers = << >>
  /\ keys = {}
  /\ lastSpawnTime = 0
  /\ enemyIdCounter = 0
  /\ itemIdCounter = 0
  /\ pointerLocked = FALSE
  /\ restarts = 0
  /\ events = << >>
  /\ \E st \in CastStands, q \in 0..3, x \in Columns :
       call = marchStart(st, rotate(createInitialPlayer.dir, q), x)

\* The loop runs once more; the march is followed for MaxMarch passes.
March ==
  /\ call.fn = "castWalls"
  /\ ~call.done
  /\ call.steps < MaxMarch
  /\ call' = marchStep(call)
  /\ UNCHANGED << now, difficulty, player, enemies, items, particles, lastTime, score,
                  isReloading, isGameOver, isPaused, isInfiniteAmmo, keyEnv, tickEnv,
                  timers, keys, lastSpawnTime, enemyIdCounter, itemIdCounter,
                  pointerLocked, restarts, events >>

NextCast == March

SpecCast == InitCast /\ [][NextCast]_vars

\* ------------------------------------------------------- an idle guard
\* Where the player stands when the frame runs: in range and in sight of the
\* guard, in range behind the pillar, out of range.
AggroStands ==
  { [x |-> 22 * U, y |-> 12 * U], [x |-> 8800, y |-> 3200], [x |-> 2500, y |-> 2500] }

\* A running session: one guard, spawned at SPAWN_POINTS[1] and still IDLE.
InitAggro ==
  /\ now = 0
  /\ difficulty \in Difficulty
  /\ \E pos \in AggroStands : player = [createInitialPlayer EXCEPT !.pos = pos]
  /\ enemies = << [Guard(1, 16 * U, 12 * U, 100) EXCEPT !.state = IDLE] >>
  /\ items = << >>
  /\ particles = << >>
  /\ lastTime = 0
  /\ score = 0
  /\ isReloading = FALSE
  /\ isGameOver = FALSE
  /\ isPaused = FALSE
  /\ isInfiniteAmmo = FALSE
  /\ keyEnv = MountEnv
  /\ tickEnv = MountEnv
  /\ timers = << >>
  /\ keys = {}
  /\ lastSpawnTime = 0
  /\ enemyIdCounter = 1
  /\ itemIdCounter = 0
  /\ pointerLocked = TRUE
  /\ restarts = 0
  /\ events = << >>
  /\ call = NoCall

NextAggro ==
  \/ \E point \in SpawnPointSet : Tick(FrameGap, point)
  \/ \E rnd \in ItemKinds : MouseDown(0, rnd)
  \/ ReloadTimeout

SpecAggro == InitAggro /\ [][NextAggro]_vars

\* ------------------------------------------------- a guard closing in
\* A running session: a guard in CHASE, just outside melee range, that spawned
\* three seconds ago and has not attacked yet.
InitAttack ==
  /\ now = 0
  /\ difficulty \in Difficulty
  /\ player = createInitialPlayer
  /\ enemies = << [Guard(1, 20800, 12 * U, 100) EXCEPT !.lastAttackTime = 0 - 3000] >>
  /\ items = << >>
  /\ particles = << >>
  /\ lastTime = 0
  /\ score = 0
  /\ isReloading = FALSE
  /\ isGameOver = FALSE
  /\ isPaused = FALSE
  /\ isInfiniteAmmo = FALSE
  /\ keyEnv = MountEnv
  /\ tickEnv = MountEnv
  /\ timers = << >>
  /\ keys = {}
  /\ lastSpawnTime = 0 - 3000
  /\ enemyIdCounter = 1
  /\ itemIdCounter = 0
  /\ pointerLocked = TRUE
  /\ restarts = 0
  /\ events = << >>
  /\ call = NoCall

\* Frames at short and long gaps.
NextAttack == \E gap \in {ShortGap, FrameGap}, point \in SpawnPointSet : Tick(gap, point)

SpecAttack == InitAttack /\ [][NextAttack]_vars

\* ------------------------------------------------------ items on the floor
\* Where a dropped item lies: within reach of the player, and across the room.
NearSpot == [x |-> 21500, y |-> 12 * U]
FarSpot == [x |-> 15 * U, y |-> 12 * U]
\* When it was dropped: 4.4 s and 1 s ago.
ItemDropTimes == {0 - 4400, 0 - 1000}
Dropped(id, sp, k, st) == [id |-> id, pos |-> sp, textureId |-> k, spawnTime |-> st]

\* A running session after three kills: items 1 and 3 dropped within reach of
\* the player, item 2 across the room, each of either kind and age; the player
\* hurt or nearly whole, the reserve below or near its cap.
InitItems ==
  /\ now = 0
  /\ difficulty = "MEDIUM"
  /\ \E h \in {50, 90}, r \in {15, 25} :
       player = [createInitialPlayer EXCEPT !.health = h, !.ammoReserve = r]
  /\ enemies = << >>
  /\ \E k1 \in ItemKinds, k2 \in ItemKinds, k3 \in ItemKinds,
        t1 \in ItemDropTimes, t2 \in ItemDropTimes, t3 \in ItemDropTimes :
       items = << Dropped(1, NearSpot, k1, t1), Dropped(2, FarSpot, k2, t2),
                  Dropped(3, NearSpot, k3, t3) >>
  /\ itemIdCounter = 3
  /\ particles = << >>
  /\ lastTime = 0
  /\ score = 3 * killScore(FALSE)
  /\ isReloading = FALSE
  /\ isGameOver = FALSE
  /\ isPaused = FALSE
  /\ isInfiniteAmmo = FALSE
  /\ keyEnv = MountEnv
  /\ tickEnv = MountEnv
  /\ timers = << >>
  /\ keys = {}
  /\ lastSpawnTime = 0
  /\ enemyIdCounter = 3
  /\ pointerLocked = TRUE
  /\ restarts = 0
  /\ events = << >>
  /\ call = NoCall

\* Frames at short and long gaps, and the pause key.
NextItems ==
  \/ \E gap \in {ShortGap, FrameGap}, point \in SpawnPointSet : Tick(gap, point)
  \/ KeyDown("Escape")

SpecItems == InitItems /\ [][NextItems]_vars

\* ------------------------------------------------------ walking into walls
\* Where the player stands: by the east wall, by the corner of the pillar, in
\* the corner of the room, in the open.
MoveStands ==
  { [x |-> 22900, y |-> 12 * U], [x |-> 9900, y |-> 4900],
    [x |-> 22900, y |-> 22900], [x |-> 12 * U, y |-> 12 * U] }

\* A running session with the player at a stand, facing along an axis.
InitMove ==
  /\ now = 0
  /\ difficulty = "MEDIUM"
  /\ \E st \in MoveStands, q \in 0..3 :
       player = [createInitialPlayer EXCEPT !.pos = st, !.dir = rotate(@, q)]
  /\ enemies = << >>
  /\ items = << >>
  /\ particles = << >>
  /\ lastTime = 0
  /\ score = 0
  /\ isReloading = FALSE
  /\ isGameOver = FALSE
  /\ isPaused = FALSE
  /\ isInfiniteAmmo = FALSE
  /\ keyEnv = MountEnv
  /\ tickEnv = MountEnv
  /\ timers = << >>
  /\ keys = {}
  /\ lastSpawnTime = 0 - SPAWN_INTERVAL
  /\ enemyIdCounter = 0
  /\ itemIdCounter = 0
  /\ pointerLocked = TRUE
  /\ restarts = 0
  /\ events = << >>
  /\ call = NoCall

\* The movement keys go down and up between frames.
NextMove ==
  \/ \E point \in SpawnPointSet : Tick(FrameGap, point)
  \/ \E code \in MoveKeys : KeyDown(code)
  \/ \E code \in MoveKeys : KeyUp(code)

SpecMove == InitMove /\ [][NextMove]_vars

\* ---------------------------------------------------- Raycaster.render
\* The ids that generateTextures fills in.
ENEMY_GUARD == 99
PARTICLE_BLOOD == 200
Textures == {1, 2, 3, 4, HEALTH_ORB, AMMO_BOX, ENEMY_GUARD, PARTICLE_BLOOD}

\* The while loop of one column, run to its hit (or cut off after MaxMarch passes).
RECURSIVE marchAll(_)
marchAll(c) == IF c.done \/ c.steps >= MaxMarch THEN c ELSE marchAll(marchStep(c))

\* A castWalls whose column loop stops at the middle of the screen: the right
\* half of the buffer keeps the fill of the constructor.
castWallsHalf(p, tex) ==
  [x \in Columns |->
     IF 2 * x < SCREEN_WIDTH
     THEN [depth |-> marchAll(marchStart(p.pos, p.dir, x)).ret, texture |-> 1]
     ELSE [depth |-> [num |-> 0, den |-> 1], texture |-> 1]]

\* castWalls, column by column: the depth written to zBuffer[x] and the texture
\* `textures[wallType] || textures[1]`; 0 stands for undefined, on which
\* `texture.width` throws.
castWalls(p, tex) ==
  [x \in Columns |->
     LET c == marchAll(marchStart(p.pos, p.dir, x))
     IN [depth |-> c.ret,
         texture |-> IF c.wallType \in tex THEN c.wallType
                     ELSE IF 1 \in tex THEN 1 ELSE 0]]

\* [...enemies, ...items, ...particles] as renderable sprites.
allSprites(m) ==
  [i \in 1..Len(m.enemies) |-> [pos |-> m.enemies[i].pos, textureId |-> ENEMY_GUARD]]
  \o [i \in 1..Len(m.items) |-> [pos |-> m.items[i].pos, textureId |-> m.items[i].textureId]]

\* transformY of a sprite in 1/1000 cell; Infinity when the determinant of the
\* camera matrix is 0 (then nothing of the sprite is drawn: the depth is
\* -Infinity, or it is +Infinity or NaN and the stripe loop is empty).
transformY(p, sp) ==
  LET det == PLANE.x * p.dir.y - p.dir.x * PLANE.y
  IN IF det = 0 THEN Infinity
     ELSE Div(PLANE.x * (sp.pos.y - p.pos.y) - PLANE.y * (sp.pos.x - p.pos.x), Div(det, U))
transformX(p, sp) ==
  LET det == PLANE.x * p.dir.y - p.dir.x * PLANE.y
  IN IF det = 0 THEN Infinity
     ELSE Div(p.dir.y * (sp.pos.x - p.pos.x) - p.dir.x * (sp.pos.y - p.pos.y), Div(det, U))

\* A depth test that is always passed.
nearerAlways(tY, d) == TRUE
\* transformY < this.zBuffer[stripe], the buffer holding 16 * num / den cells.
nearerThanWall(tY, d) == tY * d.den < 16 * U * d.num

\* The columns at which castSprites draws sprite sp, given the depth buffer.
spriteStripes(p, sp, zb, tex) ==
  LET tY == transformY(p, sp)
      tX == transformX(p, sp)
  IN IF tY = Infinity \/ tY <= 0 \/ sp.textureId \notin tex THEN {}
     ELSE LET spriteScreenX == (SCREEN_WIDTH * (tY + tX)) \div (2 * tY)
              size == (SCREEN_HEIGHT * U) \div tY
              from == Max(0, spriteScreenX + ((0 - size) \div 2))
              to == Min(SCREEN_WIDTH - 1, spriteScreenX + (size \div 2))
              clippedYStart == Max(0, (SCREEN_HEIGHT * U - size * U) \div 2 + vOffset(p, tY))
              clippedYEnd == Min((SCREEN_HEIGHT - 1) * U,
                                 (SCREEN_HEIGHT * U + size * U) \div 2 + vOffset(p, tY))
          IN {stripe \in Columns :
                /\ stripe >= from
                /\ stripe < to
                /\ stripe > 0
                /\ stripe < SCREEN_WIDTH
                /\ nearerThanWall(tY, zb[stripe].depth)
                /\ clippedYEnd > clippedYStart}

\* One call of render on the state m: castWalls fills the depth buffer and
\* draws a slice per column, castSprites draws the sprite stripes.  When a
\* column has no texture the call throws there: the buffer is written up to
\* that column and nothing later is drawn.
render(m, c) ==
  LET walls == castWalls(m.player, c.textures)
      bad == {x \in Columns : walls[x].texture = 0}
      sprites == allSprites(m)
  IN IF bad = {}
     THEN [c EXCEPT !.done = TRUE, !.aborted = FALSE,
                    !.zBuffer = [x \in Columns |-> walls[x].depth],
                    !.walls = [x \in Columns |-> walls[x].texture],
                    !.sprites = [i \in 1..Len(sprites) |->
                                   spriteStripes(m.player, sprites[i],
                                                 walls, c.textures)]]
     ELSE LET stop == CHOOSE x \in bad : \A y \in bad : x <= y
          IN [c EXCEPT !.done = TRUE, !.aborted = TRUE,
                       !.zBuffer = [x \in Columns |->
                                      IF x <= stop THEN walls[x].depth ELSE @[x]],
                       !.walls = [x \in Columns |-> IF x < stop THEN walls[x].texture ELSE 0],
                       !.sprites = << >>]

\* The texture tables render is called with: the generated one, and the same
\* without the pillar's wall texture, without the enemy sprite, without texture 1.
TextureTables == {Textures, Textures \ {2}, Textures \ {ENEMY_GUARD}, Textures \ {1}}

\* Where the camera stands, and where the two guards and the dropped item are:
\* in plain view, behind the pillar as seen from the start position, and behind
\* the camera.
ViewStands == { [x |-> 22 * U, y |-> 12 * U], [x |-> 14500, y |-> 7500] }
ViewSpots == { [x |-> 18 * U, y |-> 12 * U], [x |-> 8800, y |-> 4800], [x |-> 22800, y |-> 12 * U] }

\* A running session with two guards and an item on the floor; the Raycaster
\* constructed (zBuffer filled with 0) and no frame rendered yet.
InitRender ==
  /\ now = 0
  /\ difficulty = "MEDIUM"
  /\ \E st \in ViewStands, q \in 0..3, h \in {0, PitchStep} :
       player = [createInitialPlayer EXCEPT !.pos = st, !.dir = rotate(@, q), !.pitch = h]
  /\ \E a \in ViewSpots, b \in ViewSpots :
       /\ a # b
       /\ enemies = << [Guard(1, a.x, a.y, 100) EXCEPT !.state = IDLE] >>
       /\ items = << Dropped(1, b, HEALTH_ORB, 0) >>
  /\ particles = << >>
  /\ lastTime = 0
  /\ score = 0
  /\ isReloading = FALSE
  /\ isGameOver = FALSE
  /\ isPaused = FALSE
  /\ isInfiniteAmmo = FALSE
  /\ keyEnv = MountEnv
  /\ tickEnv = MountEnv
  /\ timers = << >>
  /\ keys = {}
  /\ lastSpawnTime = 0
  /\ enemyIdCounter = 1
  /\ itemIdCounter = 1
  /\ pointerLocked = TRUE
  /\ restarts = 0
  /\ events = << >>
  /\ \E tex \in TextureTables :
       call = [fn |-> "render", textures |-> tex, done |-> FALSE, aborted |-> FALSE,
               zBuffer |-> [x \in Columns |-> [num |-> 0, den |-> 1]],
               walls |-> [x \in Columns |-> 0], sprites |-> << >>]

\* raycaster.render(ctx, stateRef.current, textures).
Render ==
  /\ call.fn = "render"
  /\ call' = render(Cur, call)
  /\ UNCHANGED << now, difficulty, player, enemies, items, particles, lastTime, score,
                  isReloading, isGameOver, isPaused, isInfiniteAmmo, keyEnv, tickEnv,
                  timers, keys, lastSpawnTime, enemyIdCounter, itemIdCounter,
                  pointerLocked, restarts, events >>

\* Frames are rendered, and the player turns and looks up or down in between.
NextRender ==
  \/ Render
  \/ \E q \in {0, 1}, dy \in {0 - PitchStep, 0, PitchStep} : MouseMove(q, dy)

SpecRender == InitRender /\ [][NextRender]_vars

\* ------------------------------------------- two sessions, two difficulties
\* The handler's writes in the session of the variables (m) and in a second
\* session (c), which is mounted with another difficulty prop and is given
\* the same inputs at the same times.
CommitTwin(m, c) ==
  /\ player' = m.player
  /\ enemies' = m.enemies
  /\ items' = m.items
  /\ particles' = m.particles
  /\ lastTime' = m.lastTime
  /\ score' = m.score
  /\ isReloading' = m.isReloading
  /\ isGameOver' = m.isGameOver
  /\ isPaused' = m.isPaused
  /\ isInfiniteAmmo' = m.isInfiniteAmmo
  /\ timers' = m.timers
  /\ keys' = m.keys
  /\ lastSpawnTime' = m.lastSpawnTime
  /\ enemyIdCounter' = m.enemyIdCounter
  /\ itemIdCounter' = m.itemIdCounter
  /\ pointerLocked' = m.pointerLocked
  /\ restarts' = m.restarts
  /\ events' = m.events
  /\ keyEnv' = KeyEnvAfter(m)
  /\ tickEnv' = TickEnvAfter(m)
  /\ call' = [call EXCEPT !.m = [c EXCEPT !.events = << >>]]
  /\ UNCHANGED difficulty

\* Two running sessions in the same state: the player hurt, a guard in CHASE
\* three cells away that has not attacked yet; the difficulties differ.
InitTwin ==
  /\ now = 0
  /\ difficulty \in Difficulty
  /\ player = [createInitialPlayer EXCEPT !.health = 40]
  /\ enemies = << [Guard(1, 19 * U, 12 * U, 100) EXCEPT !.lastAttackTime = 0 - 3000] >>
  /\ items = << >>
  /\ particles = << >>
  /\ lastTime = 0
  /\ score = 0
  /\ isReloading = FALSE
  /\ isGameOver = FALSE
  /\ isPaused = FALSE
  /\ isInfiniteAmmo = FALSE
  /\ keyEnv = MountEnv
  /\ tickEnv = MountEnv
  /\ timers = << >>
  /\ keys = {}
  /\ lastSpawnTime = 0 - 1000
  /\ enemyIdCounter = 1
  /\ itemIdCounter = 0
  /\ pointerLocked = TRUE
  /\ restarts = 0
  /\ events = << >>
  /\ \E d \in Difficulty \ {difficulty} : call = [fn |-> "twin", diff |-> d, m |-> Cur]

\* The same frame in both sessions: the same timestamp and spawn point.
TwinTick(gap, point) ==
  /\ call.fn = "twin"
  /\ now + gap <= MaxTime
  /\ now' = now + gap
  /\ CommitTwin(tick(Cur, tickEnv, now + gap, point, difficulty),
                tick(call.m, FreshEnv(call.m), now + gap, point, call.diff))

\* The same click in both sessions, with the same random choice of the drop.
TwinMouseDown(rnd) ==
  /\ call.fn = "twin"
  /\ player.ammo > 0
  /\ now' = now
  /\ CommitTwin(handleMouseDown(Cur, FreshEnv(Cur), 0, rnd),
                handleMouseDown(call.m, FreshEnv(call.m), 0, rnd))

NextTwin ==
  \/ \E gap \in {ShortGap, FrameGap}, point \in SpawnPointSet : TwinTick(gap, point)
  \/ \E rnd \in ItemKinds : TwinMouseDown(rnd)

SpecTwin == InitTwin /\ [][NextTwin]_vars

\* ------------------------------------------- an idle guard and a chasing one
\* A running session: the guard of SPAWN_POINTS[1], still IDLE, and a second
\* guard in CHASE just outside melee range of the player, who stands in sight
\* of the idle guard, behind the pillar, or out of its range.
InitGuards ==
  /\ now = 0
  /\ difficulty \in Difficulty
  /\ \E pos \in AggroStands :
       /\ player = [createInitialPlayer EXCEPT !.pos = pos]
       /\ enemies = << [Guard(1, 16 * U, 12 * U, 100) EXCEPT !.state = IDLE],
                       [Guard(2, pos.x - 1200, pos.y, 100) EXCEPT !.lastAttackTime = 0 - 3000] >>
  /\ items = << >>
  /\ particles = << >>
  /\ lastTime = 0
  /\ score = 0
  /\ isReloading = FALSE
  /\ isGameOver = FALSE
  /\ isPaused = FALSE
  /\ isInfiniteAmmo = FALSE
  /\ keyEnv = MountEnv
  /\ tickEnv = MountEnv
  /\ timers = << >>
  /\ keys = {}
  /\ lastSpawnTime = 0
  /\ enemyIdCounter = 2
  /\ itemIdCounter = 0
  /\ pointerLocked = TRUE
  /\ restarts = 0
  /\ events = << >>
  /\ call = NoCall

\* Frames at short and long gaps, and fire.
NextGuards ==
  \/ \E gap \in {ShortGap, FrameGap}, point \in SpawnPointSet : Tick(gap, point)
  \/ \E rnd \in ItemKinds : MouseDown(0, rnd)

SpecGuards == InitGuards /\ [][NextGuards]_vars

\* ------------------------------------------------------ jumping under fire
\* The session of InitAim, on the ground or near the top of a jump, with
\* frames and the jump key.
NextJump ==
  \/ \E gap \in {ShortGap, FrameGap}, point \in SpawnPointSet : Tick(gap, point)
  \/ KeyDown("Space")

SpecJump == InitAim /\ [][NextJump]_vars

\* --------------------------------------------------- the animation-frame loop
\* The browser's list of animation-frame callbacks (call.pending, each with the
\* render whose tick it is), requestRef, the ids handed out, the tick effect
\* of a committed render that has not run yet (call.due), and what the
\* callbacks of the last animation frame did (call.log).
\* requestRef.current = requestAnimationFrame(tick)
requestFrame(c, env) ==
  [c EXCEPT !.ids = @ + 1,
            !.pending = Append(@, [id |-> c.ids + 1, env |-> env]),
            !.requestRef = c.ids + 1]

\* A cleanup that cancels nothing.
cancelNothing(c) == c

\* cancelAnimationFrame(requestRef.current)
cancelFrame(c) ==
  [c EXCEPT !.pending = SelectSeq(@, LAMBDA r : r.id # c.requestRef)]

\* The tick effect of a render: cleanup of the previous one, then the request.
tickEffect(c) ==
  IF c.due = << >> THEN c
  ELSE [requestFrame(cancelFrame(c), c.due[1]) EXCEPT !.due = << >>]

\* What one run of tick does to the simulation state and the canvas.
passLog(m, env) ==
  IF env.isPaused THEN << >>
  ELSE IF m.player.health > 0 THEN << "update", "render" >> ELSE << "render" >>

\* The callbacks the browser runs in one animation frame, in order: each is a
\* tick with the state of its own render, and requests the next frame.
RECURSIVE runFrame(_, _, _, _, _, _)
runFrame(m, c, batch, time, point, diff) ==
  IF batch = << >> THEN [m |-> m, c |-> c]
  ELSE runFrame(tick(m, batch[1].env, time, point, diff),
                requestFrame([c EXCEPT !.log = @ \o passLog(m, batch[1].env)], batch[1].env),
                Tail(batch), time, point, diff)

\* The handler's writes and the state of the frame loop.
CommitLoop(m, c) ==
  /\ player' = m.player
  /\ enemies' = m.enemies
  /\ items' = m.items
  /\ particles' = m.particles
  /\ lastTime' = m.lastTime
  /\ score' = m.score
  /\ isReloading' = m.isReloading
  /\ isGameOver' = m.isGameOver
  /\ isPaused' = m.isPaused
  /\ isInfiniteAmmo' = m.isInfiniteAmmo
  /\ timers' = m.timers
  /\ keys' = m.keys
  /\ lastSpawnTime' = m.lastSpawnTime
  /\ enemyIdCounter' = m.enemyIdCounter
  /\ itemIdCounter' = m.itemIdCounter
  /\ pointerLocked' = m.pointerLocked
  /\ restarts' = m.restarts
  /\ events' = m.events
  /\ keyEnv' = KeyEnvAfter(m)
  /\ tickEnv' = TickEnvAfter(m)
  /\ call' = c
  /\ UNCHANGED difficulty

\* The session after the mount: the tick effect has made the first request.
InitLoop ==
  /\ now = 0
  /\ difficulty \in Difficulty
  /\ player = createInitialPlayer
  /\ enemies = << >>
  /\ items = << >>
  /\ particles = << >>
  /\ lastTime = 0
  /\ score = 0
  /\ isReloading = FALSE
  /\ isGameOver = FALSE
  /\ isPaused = FALSE
  /\ isInfiniteAmmo = FALSE
  /\ keyEnv = MountEnv
  /\ tickEnv = MountEnv
  /\ timers = << >>
  /\ keys = {}
  /\ lastSpawnTime = 0
  /\ enemyIdCounter = 0
  /\ itemIdCounter = 0
  /\ pointerLocked = TRUE
  /\ restarts = 0
  /\ events = << >>
  /\ call = [fn |-> "loop", pending |-> << [id |-> 1, env |-> MountEnv] >>,
             requestRef |-> 1, ids |-> 1, due |-> << >>, log |-> << >>]

\* An animation frame: the browser runs the callbacks requested before it.
LoopFrame(gap, point) ==
  /\ call.fn = "loop"
  /\ now + gap <= MaxTime
  /\ now' = now + gap
  /\ LET r == runFrame(Cur, [call EXCEPT !.pending = << >>, !.log = << >>],
                       call.pending, now + gap, point, difficulty)
     IN CommitLoop(r.m, r.c)

\* The Escape key: an effect still due from the last render runs before the
\* new render; the new render's tick effect becomes due.
LoopKeyDown(code) ==
  /\ call.fn = "loop"
  /\ call.ids < MaxRequests
  /\ now' = now
  /\ LET m == handleKeyDown(Cur, keyEnv, code)
     IN CommitLoop(m, [tickEffect(call) EXCEPT !.due = IF m.isPaused # isPaused
                                                      THEN << FreshEnv(m) >> ELSE << >>])

\* React runs the tick effect of the committed render.
LoopEffect ==
  /\ call.fn = "loop"
  /\ call.due # << >>
  /\ now' = now
  /\ CommitLoop(Cur, tickEffect(call))

NextLoop ==
  \/ \E point \in SpawnPointSet : LoopFrame(FrameGap, point)
  \/ LoopKeyDown("Escape")
  \/ LoopEffect

SpecLoop == InitLoop /\ [][NextLoop]_vars

\* ------------------------------------------------ walking with a guard about
\* A running session with the player at a stand by a wall, the pillar or in
\* the open, and a guard in CHASE on the far side of the pillar's corner.
InitRoam ==
  /\ now = 0
  /\ difficulty = "MEDIUM"
  /\ \E st \in MoveStands, q \in 0..3 :
       player = [createInitialPlayer EXCEPT !.pos = st, !.dir = rotate(@, q)]
  /\ enemies = << Guard(1, 12100, 6500, 100) >>
  /\ items = << >>
  /\ particles = << >>
  /\ lastTime = 0
  /\ score = 0
  /\ isReloading = FALSE
  /\ isGameOver = FALSE
  /\ isPaused = FALSE
  /\ isInfiniteAmmo = FALSE
  /\ keyEnv = MountEnv
  /\ tickEnv = MountEnv
  /\ timers = << >>
  /\ keys = {}
  /\ lastSpawnTime = 0 - SPAWN_INTERVAL
  /\ enemyIdCounter = 1
  /\ itemIdCounter = 0
  /\ pointerLocked = TRUE
  /\ restarts = 0
  /\ events = << >>
  /\ call = NoCall

SpecRoam == InitRoam /\ [][NextMove]_vars

\* ------------------------------------------- hasLineOfSight in both directions
\* The loop does not compute sample i as p1 + i * (p2 - p1) / steps: it adds
\* the rounded quotient dx to cx, i times, in floating point.  The sum differs
\* from the exact sample by a few units in the last place, which changes
\* Math.floor(cx) only when the exact sample lies on a cell boundary: there the
\* floor is the cell on either side.  With dx = 0 every sum is p1 itself.
sampleFloors(a, b, i) ==
  LET n == LOS_STEPS * a + i * (b - a)
      k == n \div (LOS_STEPS * U)
  IN IF b # a /\ n % (LOS_STEPS * U) = 0 THEN {k - 1, k} ELSE {k}

\* The map codes sample i of the march from p1 to p2 can read.
sampleCodes(p1, p2, i) ==
  { MapAt(cx * U, cy * U) : cx \in sampleFloors(p1.x, p2.x, i),
                           cy \in sampleFloors(p1.y, p2.y, i) }

\* The values hasLineOfSight(p1, p2, map) can return.
sightOutcomes(p1, p2) ==
  { r \in BOOLEAN :
      IF r THEN \A i \in 1..LOS_STEPS : \E c \in sampleCodes(p1, p2, i) : ~IsWall(c)
           ELSE \E i \in 1..LOS_STEPS : \E c \in sampleCodes(p1, p2, i) : IsWall(c) }

\* End points in empty cells of the room: on a cell boundary, inside a cell,
\* on both sides of the pillar.
PairCoords == {1000, 1500, 6500, 9500, 12500, 22500}

\* The component mounted, and hasLineOfSight about to be called on a pair of
\* points in one order (the AI's) and in the other (the shot's).
InitPair ==
  /\ now = 0
  /\ difficulty = "MEDIUM"
  /\ player = createInitialPlayer
  /\ enemies = << >>
  /\ items = << >>
  /\ particles = << >>
  /\ lastTime = 0
  /\ score = 0
  /\ isReloading = FALSE
  /\ isGameOver = FALSE
  /\ isPaused = FALSE
  /\ isInfiniteAmmo = FALSE
  /\ keyEnv = MountEnv
  /\ tickEnv = MountEnv
  /\ timers = << >>
  /\ keys = {}
  /\ lastSpawnTime = 0
  /\ enemyIdCounter = 0
  /\ itemIdCounter = 0
  /\ pointerLocked = FALSE
  /\ restarts = 0
  /\ events = << >>
  /\ \E ax \in PairCoords, ay \in PairCoords, bx \in PairCoords, by \in PairCoords :
       call = [fn |-> "sightBothWays", p1 |-> [x |-> ax, y |-> ay],
               p2 |-> [x |-> bx, y |-> by], done |-> FALSE, ret |-> << >>]

\* Both calls return.
CallPair ==
  /\ call.fn = "sightBothWays"
  /\ ~call.done
  /\ \E r1 \in sightOutcomes(call.p1, call.p2), r2 \in sightOutcomes(call.p2, call.p1) :
       call' = [call EXCEPT !.done = TRUE, !.ret = << r1, r2 >>]
  /\ UNCHANGED << now, difficulty, player, enemies, items, particles, lastTime, score,
                  isReloading, isGameOver, isPaused, isInfiniteAmmo, keyEnv, tickEnv,
                  timers, keys, lastSpawnTime, enemyIdCounter, itemIdCounter,
                  pointerLocked, restarts, events >>

SpecPair == InitPair /\ [][CallPair]_vars

\* ------------------------------------------------------- dying, twice
\* The moment of InitEngaged in a second session: the player redeployed once,
\* and on the game-over screen before it Escape was pressed twice, so the tick
\* that runs was registered by a render with isGameOver = true (the tick
\* effect re-subscribes only when isPaused changes).
InitRedeployed ==
  /\ now = 0
  /\ difficulty \in Difficulty
  /\ \E w \in WeaponStates :
       player = [createInitialPlayer EXCEPT !.pos = [x |-> 21700, y |-> 12 * U],
                                            !.health = 20, !.ammo = w.ammo,
                                            !.ammoReserve = w.ammoReserve]
  /\ enemies = << Engaged(20) >>
  /\ items = << >>
  /\ particles = << >>
  /\ lastTime = 0
  /\ score = 0
  /\ isReloading = FALSE
  /\ isGameOver = FALSE
  /\ isPaused = FALSE
  /\ isInfiniteAmmo = FALSE
  /\ keyEnv = MountEnv
  /\ tickEnv = [MountEnv EXCEPT !.isGameOver = TRUE]
  /\ timers = << >>
  /\ keys = {}
  /\ lastSpawnTime = 0 - SPAWN_INTERVAL
  /\ enemyIdCounter = 1
  /\ itemIdCounter = 0
  /\ pointerLocked = TRUE
  /\ restarts = 1
  /\ events = << >>
  /\ call = NoCall

\* Frames, the Escape key, fire and look, and the Redeploy button.
NextDeath ==
  \/ \E point \in SpawnPointSet : Tick(FrameGap, point)
  \/ KeyDown("Escape")
  \/ \E rnd \in ItemKinds : MouseDown(0, rnd)
  \/ MouseMove(1, PitchStep)
  \/ ClickRestart

\* A first session, or a second one after such a redeploy.
InitDeath == InitEngaged \/ InitRedeployed

SpecDeath == InitDeath /\ [][NextDeath]_vars

\* ------------------------------------------------- reloads that run to the end
\* The combat session with pause, in which a reload is requested only while
\* its completion still falls within the time the model follows; animation
\* frames keep coming, whether paused or not, and a timer that is due fires.
Frames == \E point \in SpawnPointSet : Tick(FrameGap, point)

NextLive ==
  \/ Frames
  \/ now + RELOAD_TIME <= MaxTime /\ KeyDown("KeyR")
  \/ now + RELOAD_TIME <= MaxTime /\ \E rnd \in ItemKinds : MouseDown(0, rnd)
  \/ KeyDown("Escape")
  \/ ReloadTimeout
  \/ ClickRestart

\* The step of the clock that a frame makes.  Frames is the only action that
\* moves the clock, and it is enabled exactly when FrameStep is, so weak
\* fairness of FrameStep on the clock is weak fairness of Frames.
FrameStep ==
  LET d == IF timers # << >> /\ timers[1].deadline - now < FrameGap
           THEN timers[1].deadline - now ELSE FrameGap
  IN d > 0 /\ now + d <= MaxTime /\ now' = now + d

SpecLive == InitEngaged /\ [][NextLive]_vars /\ WF_now(FrameStep) /\ WF_vars(ReloadTimeout)

\* -------------------------------------------------------------------- claims
HasEvent(es, ev) == \E i \in 1..Len(es) : es[i] = ev

\* The step is the completion callback of the oldest pending reload.
Completes == timers # << >> /\ timers' = Tail(timers)

\* The step fired a shot.
Fired == HasEvent(events', "shoot")

\* C1: when the completion callback of a reload of the running session runs,
\* exactly t = min(CLIP_SIZE - clip, reserve) rounds, taken on the values at
\* that moment, move from reserve to clip, and the weapon is READY afterwards.
C1_ReloadTransfers ==
  [][ (Completes /\ ~timers[1].stale) =>
        LET t == Min(CLIP_SIZE - player.ammo, player.ammoReserve)
        IN /\ player'.ammo = player.ammo + t
           /\ player'.ammoReserve = player.ammoReserve - t
           /\ isReloading' = FALSE ]_vars

\* A reload from clip 3, reserve 20 has completed: clip 10, reserve 13.
C1_Reloaded ==
  /\ restarts = 0
  /\ now >= RELOAD_TIME
  /\ timers = << >>
  /\ ~isReloading
  /\ player.ammo = 10
  /\ player.ammoReserve = 13

\* C2: a completion callback scheduled before a restart changes nothing of the
\* new session when it fires: not the player's clip and reserve, and not the
\* READY/RELOADING state.
C2_StaleCompletionIsNoOp ==
  [][ (Completes /\ timers[1].stale) =>
        (player' = player /\ isReloading' = isReloading) ]_vars

\* A reload of the running session was accepted and has not completed.
ReloadPending == \E i \in 1..Len(timers) : ~timers[i].stale

\* C3: between the acceptance of a reload request and the completion of that
\* reload no shot is fired.
C3_NoShotWhileReloading == [][ ReloadPending => ~Fired ]_vars

\* A reload request made in this state has to be ignored.
ReloadInvalid ==
  \/ isReloading
  \/ isInfiniteAmmo
  \/ player.health <= 0
  \/ player.ammo = CLIP_SIZE
  \/ player.ammoReserve = 0

\* C4: from a state where a reload is in progress, the player is dead, the clip
\* is full, the reserve is empty or infinite-ammo is on, no step schedules a
\* completion callback or emits a reload event.
C4_InvalidReloadIgnored ==
  [][ ReloadInvalid =>
        (Len(timers') <= Len(timers) /\ ~HasEvent(events', "reload")) ]_vars

\* C5: a fired shot with infinite-ammo off takes exactly one round from the clip
\* and none from the reserve; when the clip reaches zero a reload is requested in
\* the same step, accepted iff the reserve is not empty; with infinite-ammo on a
\* shot changes neither clip nor reserve and requests no reload.
C5_FireSpendsOneRound ==
  [][ Fired =>
        IF isInfiniteAmmo
        THEN /\ player'.ammo = player.ammo
             /\ player'.ammoReserve = player.ammoReserve
             /\ timers' = timers
             /\ isReloading' = isReloading
        ELSE /\ player'.ammo = player.ammo - 1
             /\ player'.ammoReserve = player.ammoReserve
             /\ IF player'.ammo = 0
                THEN /\ isReloading' = (player.ammoReserve > 0)
                     /\ HasEvent(events', "reload") = (player.ammoReserve > 0)
                     /\ Len(timers') = Len(timers) + (IF player.ammoReserve > 0 THEN 1 ELSE 0)
                ELSE /\ isReloading' = isReloading
                     /\ timers' = timers ]_vars

\* With infinite-ammo on, a shot was fired from a clip that an earlier shot had
\* emptied with an empty reserve (no reload was entered).
C5_FiredBothWays ==
  /\ isInfiniteAmmo
  /\ HasEvent(events, "shoot")
  /\ player.ammo = 0
  /\ player.ammoReserve = 0
  /\ ~isReloading

\* The state in which a fire input is a dry fire.
DryFirePre ==
  /\ pointerLocked
  /\ ~isPaused
  /\ player.health > 0
  /\ ~isReloading
  /\ ~isInfiniteAmmo
  /\ player.ammo = 0

\* C6: a fire input with an empty clip (infinite-ammo off, player alive, READY)
\* emits a dry-fire event and no shoot event, requests a reload (accepted iff the
\* reserve is not empty), and leaves clip, enemies, score and items alone.
C6_DryFire ==
  [][ (DryFirePre /\ \E rnd \in ItemKinds : MouseDown(0, rnd)) =>
        /\ HasEvent(events', "dryFire")
        /\ ~HasEvent(events', "shoot")
        /\ player'.ammo = 0
        /\ enemies' = enemies
        /\ score' = score
        /\ items' = items
        /\ isReloading' = (player.ammoReserve > 0)
        /\ HasEvent(events', "reload") = (player.ammoReserve > 0) ]_vars

\* A dry fire whose reload request was accepted.
C6_DryFired ==
  /\ events = << "dryFire", "reload" >>
  /\ player.ammo = 0
  /\ isReloading

\* C7: player health is within [0, 100] in every reachable state.
C7_HealthInRange == player.health >= 0 /\ player.health <= MAX_HEALTH

\* C8: in every reachable state 0 <= clip <= CLIP_SIZE and
\* 0 <= reserve <= MAX_RESERVE.
C8_AmmoInRange ==
  /\ player.ammo >= 0
  /\ player.ammo <= CLIP_SIZE
  /\ player.ammoReserve >= 0
  /\ player.ammoReserve <= MAX_RESERVE

\* An ammo pickup has just been capped at MAX_RESERVE.
C8_PickupCapped ==
  /\ HasEvent(events, "ammoPickup")
  /\ player.ammoReserve = MAX_RESERVE
  /\ player.ammo < CLIP_SIZE

\* The enemies the step took health from.
Damaged == {i \in 1..Len(enemies) : enemies'[i].health < enemies[i].health}

\* Enemy i is alive, in front, within the hit width and in sight.
AimCandidate(i) == InAim(player, enemies[i])

\* Enemy i passes those tests and the aim point lies within its vertical span.
SpanCandidate(i) ==
  AimCandidate(i) /\ InVerticalSpan(player, EnemyDist(player, enemies[i]))

\* C9 as amended: a shot damages at most one enemy, and only a minimum-distance
\* enemy among the live enemies that are in front, within the hit width, in
\* sight and whose vertical span contains the aim point; when some enemy passes
\* all four tests, the shot damages one.
C9_NearestInSpan ==
  [][ Fired =>
        /\ Cardinality(Damaged) <= 1
        /\ \A i \in Damaged :
             /\ SpanCandidate(i)
             /\ \A j \in 1..Len(enemies) :
                  SpanCandidate(j) =>
                    EnemyDist(player, enemies[i]) <= EnemyDist(player, enemies[j])
        /\ (\E j \in 1..Len(enemies) : SpanCandidate(j)) => Damaged # {} ]_vars

\* A shot over the head of the near guard, which is in aim and unhurt, has
\* damaged the far guard.
C9_FarGuardHit ==
  /\ HasEvent(events, "shoot")
  /\ Len(enemies) = 2
  /\ enemies[1].health = 100
  /\ InAim(player, enemies[1])
  /\ enemies[2].health < 100

\* C9 as stated: a shot damages at most one enemy, and only the minimum-distance
\* enemy among the live enemies that are in front, within the hit width and in
\* sight, and that one only if the aim point lies within its vertical span.
C9_NearestThenSpan ==
  [][ Fired =>
        /\ Cardinality(Damaged) <= 1
        /\ \A i \in Damaged :
             /\ AimCandidate(i)
             /\ \A j \in 1..Len(enemies) :
                  AimCandidate(j) =>
                    EnemyDist(player, enemies[i]) <= EnemyDist(player, enemies[j])
             /\ InVerticalSpan(player, EnemyDist(player, enemies[i])) ]_vars

\* Shots fired so far in a session that has not reloaded.
ShotsFired == START_AMMO - player.ammo
CeilDiv(a, b) == (a + b - 1) \div b

\* C10: a hit kills iff the health left is <= 0.  With level aim at one guard of
\* initial health h (its health plus 40 per shot so far), every hit it survives
\* is one of the first ceil(h/40) - 1, and the hit that kills it is number
\* ceil(h/40): health 40 dies at the first body hit, health 41 at the second.
C10_KillRule ==
  LET e == enemies[1]
      n == ShotsFired
      h == e.health + 40 * n
  IN /\ HasEvent(events, "enemyHit") =>
          (e.health > 0 /\ n <= CeilDiv(h, 40) - 1 /\ score = 0 /\ items = << >>)
     /\ HasEvent(events, "enemyDeath") =>
          (e.health <= 0 /\ n = CeilDiv(h, 40) /\ score = 1 /\ Len(items) = 1)

\* A guard of health 41 has died at the second body hit.
C10_SecondHitKills ==
  /\ HasEvent(events, "enemyDeath")
  /\ ShotsFired = 2
  /\ enemies[1].health = 0 - 39

\* C11: a hit that leaves health <= 0 adds exactly one item, at the enemy's
\* position, holding health or ammo, and raises the score; a hit that leaves
\* health > 0 puts the enemy in CHASE and adds no item and no score.  Only live
\* enemies are hit, and an enemy with health <= 0 never changes again: every
\* step leaves it as it is or removes it.
C11_LethalAndNonLethalHit ==
  [][ /\ Fired =>
           \A i \in Damaged :
             /\ enemies[i].health > 0
             /\ IF enemies'[i].health <= 0
                THEN /\ Len(items') = Len(items) + 1
                     /\ SubSeq(items', 1, Len(items)) = items
                     /\ items'[Len(items')].pos = enemies[i].pos
                     /\ items'[Len(items')].textureId \in {HEALTH_ORB, AMMO_BOX}
                     /\ score' > score
                ELSE /\ enemies'[i].state = CHASE
                     /\ items' = items
                     /\ score' = score
      /\ \A i \in 1..Len(enemies) :
           enemies[i].health <= 0 =>
             \A j \in 1..Len(enemies') :
               enemies'[j].id = enemies[i].id => enemies'[j] = enemies[i] ]_vars

\* A guard that had just spawned (IDLE, no frame since) took a body hit and is
\* in CHASE.
C11_IdleGuardAggroed ==
  /\ HasEvent(events, "enemyHit")
  /\ \E i \in 1..Len(enemies) :
       /\ enemies[i].state = CHASE
       /\ enemies[i].health = 60
       /\ enemies[i].lastAttackTime = now
       /\ enemies[i].pos \in SpawnPointSet
       /\ now > 0

\* C12: a hit that kills with headshot damage (100) raises the score by 2, a
\* hit that kills with body damage (40) raises it by 1, whatever health the
\* enemy had; a hit that does not kill leaves the score unchanged.
C12_HeadshotScoresMore ==
  [][ Fired =>
        \A i \in Damaged :
          IF enemies'[i].health <= 0
          THEN IF enemies[i].health - enemies'[i].health = 100
               THEN score' = score + 2
               ELSE enemies[i].health - enemies'[i].health = 40 /\ score' = score + 1
          ELSE score' = score ]_vars

\* Two guards have been killed, one by a headshot and one by a body shot.
C12_HeadAndBodyKill ==
  /\ HasEvent(events, "enemyDeath")
  /\ Len(items) = 2
  /\ score = 3

\* The cell of the i-th of the 25 samples of the call.
SampleCell(i) ==
  LET sx == (25 * call.p1.x + i * (call.p2.x - call.p1.x)) \div 25
      sy == (25 * call.p1.y + i * (call.p2.y - call.p1.y)) \div 25
  IN MapAt(sx, sy)

SightReturned == call.fn = "hasLineOfSight" /\ call.done

\* C13: hasLineOfSight returns false iff one of the 25 samples lies in a wall
\* cell or outside the grid.
C13_BlockedIffWallOrOutside ==
  SightReturned =>
    (call.ret = FALSE <=>
       \E i \in 1..25 : SampleCell(i) = undefined \/ SampleCell(i) > 0)

\* The point lies in the grid.
InGrid(p) == p.x >= 0 /\ p.x < MapSize * U /\ p.y >= 0 /\ p.y < MapSize * U

\* C14 as amended: hasLineOfSight(a, a) is true for every point a in an empty
\* cell of the grid, and false for every point a in a wall cell.
C14_SelfSightOffWalls ==
  (SightReturned /\ call.p1 = call.p2 /\ InGrid(call.p1)) =>
    (call.ret = TRUE <=> MapAt(call.p1.x, call.p1.y) = 0)

\* hasLineOfSight(a, a) has returned true for a point of the open room.
C14_SelfSightClear ==
  /\ SightReturned
  /\ call.p1 = call.p2
  /\ MapAt(call.p1.x, call.p1.y) = 0
  /\ call.ret = TRUE

\* C14 as stated: hasLineOfSight(a, a) is true for every point a in the grid.
C14_SelfSightInGrid ==
  (SightReturned /\ call.p1 = call.p2 /\ InGrid(call.p1)) => call.ret = TRUE

\* C15: an enemy goes from IDLE to CHASE only in a frame in which the player
\* is closer than the aggro radius and in its line of sight, or by a hit it
\* survives; an enemy in CHASE is in CHASE for as long as it exists.
C15_AggroAndChaseTerminal ==
  [][ \A i \in 1..Len(enemies) : \A j \in 1..Len(enemies') :
        enemies'[j].id = enemies[i].id =>
          /\ enemies[i].state = CHASE => enemies'[j].state = CHASE
          /\ (enemies[i].state = IDLE /\ enemies'[j].state = CHASE) =>
               \/ /\ now' > now
                  /\ Dist(player'.pos.x - enemies[i].pos.x,
                          player'.pos.y - enemies[i].pos.y) < 12000
                  /\ \A k \in 1..25 :
                       LET sx == (25 * enemies[i].pos.x + k * (player'.pos.x - enemies[i].pos.x)) \div 25
                           sy == (25 * enemies[i].pos.y + k * (player'.pos.y - enemies[i].pos.y)) \div 25
                       IN ~(MapAt(sx, sy) # undefined /\ MapAt(sx, sy) > 0)
               \/ /\ Fired
                  /\ enemies'[j].health < enemies[i].health
                  /\ enemies'[j].health > 0 ]_vars

\* A guard that was never hit is in CHASE: the AI pass aggroed it.
C15_AggroedBySight ==
  /\ now > 0
  /\ \E i \in 1..Len(enemies) : enemies[i].state = CHASE /\ enemies[i].health = 100

\* Enemy i of this state is enemy j of the next and has attacked in the step.
AttackedAs(i, j) ==
  /\ enemies'[j].id = enemies[i].id
  /\ enemies'[j].lastAttackTime # enemies[i].lastAttackTime

Attackers == {i \in 1..Len(enemies) : \E j \in 1..Len(enemies') : AttackedAs(i, j)}
RangedAttackers ==
  {i \in Attackers : Dist(player'.pos.x - enemies[i].pos.x,
                          player'.pos.y - enemies[i].pos.y) > 1000}
CountEvents(es, ev) == Cardinality({k \in 1..Len(es) : es[k] = ev})

\* C16: in a frame each enemy attacks at most once (one damage event per
\* attacking enemy); an attack is stamped with the frame's time and comes more
\* than 1000 ms after that enemy's previous stamp; it is a melee attack only at
\* distance <= 1.0, and a ranged attack only beyond that, below the ranged range,
\* in sight and more than the difficulty's cooldown after the previous stamp.
C16_AttackCooldowns ==
  [][ now' > now =>
        /\ \A i \in 1..Len(enemies) : \A j \in 1..Len(enemies') :
             AttackedAs(i, j) =>
               LET d == Dist(player'.pos.x - enemies[i].pos.x,
                             player'.pos.y - enemies[i].pos.y)
                   since == now' - enemies[i].lastAttackTime
               IN /\ enemies'[j].lastAttackTime = now'
                  /\ since > 1000
                  /\ \/ d <= 1000
                     \/ /\ d < 9000
                        /\ hasLineOfSight(enemies[i].pos, player'.pos)
                        /\ since > shootCooldown(difficulty)
        /\ CountEvents(events', "playerDamage") = Cardinality(Attackers)
        /\ CountEvents(events', "enemyShoot") = Cardinality(RangedAttackers) ]_vars

\* The guard has made a ranged attack while closing in and then a melee attack.
C16_RangedThenMelee ==
  /\ HasEvent(events, "playerDamage")
  /\ ~HasEvent(events, "enemyShoot")
  /\ \E i \in 1..Len(enemies) : enemies[i].id = 1 /\ enemies[i].lastAttackTime = now
  /\ player.health = 100 - damageRanged(difficulty) - damageMelee(difficulty)

\* C17: an enemy with health <= 0 is gone after the next frame that runs the
\* AI (player alive, not paused); until then no step changes it, and the
\* enemies that attack in a frame are live ones.
C17_DeadEnemiesTakeNoAction ==
  [][ /\ (now' > now /\ player.health > 0 /\ ~tickEnv.isPaused) =>
           \A j \in 1..Len(enemies') : enemies'[j].health > 0
      /\ \A i \in 1..Len(enemies) :
           enemies[i].health <= 0 =>
             /\ i \notin Attackers
             /\ \A j \in 1..Len(enemies') :
                  enemies'[j].id = enemies[i].id =>
                    /\ enemies'[j].pos = enemies[i].pos
                    /\ enemies'[j].state = enemies[i].state
                    /\ enemies'[j].lastAttackTime = enemies[i].lastAttackTime
      /\ now' > now => CountEvents(events', "playerDamage") = Cardinality(Attackers) ]_vars

\* An enemy was killed and a later frame has removed it: kills are on the
\* score, a frame has just run, and every enemy left is alive.
C17_DeadRemovedByFrame ==
  /\ restarts = 0
  /\ score > 0
  /\ now > 0
  /\ lastTime = now
  /\ player.health > 0
  /\ HasEvent(events, "playerDamage")
  /\ \A i \in 1..Len(enemies) : enemies[i].health > 0

\* The step is a frame that runs the update pass.
UpdatePass == now' > now /\ player.health > 0 /\ ~tickEnv.isPaused

\* Item k of this state is within pickup reach of the player.
InReach(k) ==
  Dist(player.pos.x - items[k].pos.x, player.pos.y - items[k].pos.y) < 800

\* C18: no item with now - spawnTime > 5000 is left after a frame's update
\* pass, near the player or not; an item out of reach whose age is at most 5000
\* at that frame is still there, so it goes at the first update pass that finds
\* it too old.
C18_ItemExpiry ==
  [][ UpdatePass =>
        /\ \A k \in 1..Len(items') : now' - items'[k].spawnTime <= 5000
        /\ \A k \in 1..Len(items) :
             (now' - items[k].spawnTime <= 5000 /\ ~InReach(k)) =>
               \E n \in 1..Len(items') : items'[n] = items[k] ]_vars

\* The first frame, 1300 ms in, has removed the item across the room (item 2)
\* although nothing was picked up.
C18_ExpiredUntouched ==
  /\ now = FrameGap
  /\ lastTime = now
  /\ ~isPaused
  /\ events = << >>
  /\ \A k \in 1..Len(items) : items[k].id # 2

\* Item k of this state is picked up by a pass at the next state's time.
PickedUp(k) == now' - items[k].spawnTime <= 5000 /\ InReach(k)
PickedOf(kind) == {k \in 1..Len(items) : PickedUp(k) /\ items[k].textureId = kind}
\* The items of this state that the pass leaves: neither too old nor in reach.
LeftAlone == SelectSeq(items, LAMBDA it :
               /\ now' - it.spawnTime <= 5000
               /\ Dist(player.pos.x - it.pos.x, player.pos.y - it.pos.y) >= 800)

\* C19: a frame's item pass leaves exactly the items that are neither expired
\* nor within 0.8 of the player, unchanged and in order; every non-expired item
\* in reach gives one pickup event and its effect, health to min(100, health +
\* 30) per health item and reserve to min(30, reserve + 10) per ammo item; an
\* expired item in reach gives nothing.
C19_ItemPass ==
  [][ UpdatePass =>
        LET nH == Cardinality(PickedOf(50))
            nA == Cardinality(PickedOf(51))
        IN /\ items' = LeftAlone
           /\ CountEvents(events', "heal") = nH
           /\ CountEvents(events', "ammoPickup") = nA
           /\ player'.ammoReserve = Min(30, player.ammoReserve + 10 * nA)
           /\ ~HasEvent(events', "playerDamage") =>
                player'.health = Min(100, player.health + 30 * nH) ]_vars

\* The first frame, 1300 ms in: one of the two items in reach healed the player
\* up to the cap, the other was too old and went without a pickup, the fresh
\* item across the room is still there.
C19_HealedAndExpired ==
  /\ now = FrameGap
  /\ lastTime = now
  /\ events = << "heal" >>
  /\ player.health = 100
  /\ Len(items) = 1
  /\ items[1].id = 2

\* The components of the frame's move, from the keys held and the facing.
StepX ==
  LET d == moveDir(player, keys)
  IN Div(d.x * Div(3000 * Min(100, now' - lastTime), 1000), Dist(d.x, d.y))
StepY ==
  LET d == moveDir(player, keys)
  IN Div(d.y * Div(3000 * Min(100, now' - lastTime), 1000), Dist(d.x, d.y))
Moving == moveDir(player, keys) # [x |-> 0, y |-> 0]
\* The X destination cell is empty; the Y destination cell, in the column of
\* the X coordinate after the X step, is empty.
XFree == IsEmpty(MapAt(player.pos.x + StepX, player.pos.y))
XAfter == IF XFree THEN player.pos.x + StepX ELSE player.pos.x
YFree == IsEmpty(MapAt(XAfter, player.pos.y + StepY))

\* C20: in a frame that moves the player, X is resolved first and Y against
\* the updated X; when only the Y destination is blocked, y is unchanged and x
\* advances by the X component, and when only the X destination is blocked, x
\* is unchanged and y advances by the Y component.
C20_AxisSlide ==
  [][ (UpdatePass /\ Moving) =>
        /\ (XFree /\ ~YFree) =>
             (player'.pos.x = player.pos.x + StepX /\ player'.pos.y = player.pos.y)
        /\ (~XFree /\ YFree) =>
             (player'.pos.x = player.pos.x /\ player'.pos.y = player.pos.y + StepY) ]_vars

\* One diagonal step from the stand by the pillar's corner: x advanced by the
\* diagonal component into the column of the pillar, y stayed.
C20_SlidAlongPillar ==
  /\ keys = {"KeyW", "KeyA"}
  /\ lastTime = now
  /\ now = FrameGap
  /\ player.pos = [x |-> 9900 + 212, y |-> 4900]

StepReturned == call.fn = "axisMove" /\ call.done
\* The cell of (x, y) is a wall of the grid.
WallCell(x, y) == InGrid([x |-> x, y |-> y]) /\ WORLD_MAP(x \div U, y \div U) > 0

\* C21: a move whose X destination lies outside the grid leaves x unchanged,
\* and one whose Y destination (in the column of the resulting x) lies outside
\* the grid leaves y unchanged, as for a destination in a wall cell; the test
\* always yields a position, the old coordinate or the stepped one on each axis.
C21_OutsideRejected ==
  StepReturned =>
    LET p == call.p1
        s == call.p2
        r == call.ret
    IN /\ r.x \in {p.x, p.x + s.x}
       /\ r.y \in {p.y, p.y + s.y}
       /\ ~InGrid([x |-> p.x + s.x, y |-> p.y]) => r.x = p.x
       /\ ~InGrid([x |-> r.x, y |-> p.y + s.y]) => r.y = p.y
       /\ WallCell(p.x + s.x, p.y) => r.x = p.x
       /\ WallCell(r.x, p.y + s.y) => r.y = p.y

\* A diagonal step off the corner of the grid, from inside the border cell at
\* (23.9, 23.9), has been resolved: the mover is where it was.
C21_SteppedOffGrid ==
  /\ StepReturned
  /\ call.p1 = [x |-> 23900, y |-> 23900]
  /\ call.p2 = [x |-> 300, y |-> 300]
  /\ call.ret = call.p1

\* The march of this state started strictly inside the walled room: in an empty
\* cell and on no grid line.
StartEnclosed ==
  /\ MapAt(call.p1.x, call.p1.y) = 0
  /\ call.p1.x % U # 0
  /\ call.p1.y % U # 0
MarchCell == [x |-> call.mapX * U, y |-> call.mapY * U]

\* C22: the march of a column from strictly inside the walled room ends within
\* 2 * 24 grid steps with a finite positive perpendicular distance, and a
\* march whose cell has left the grid has been stopped.
C22_MarchEnds ==
  call.fn = "castWalls" =>
    /\ StartEnclosed =>
         /\ call.steps <= 2 * MapSize
         /\ call.steps = 2 * MapSize => call.done
         /\ call.done => (call.ret.num > 0 /\ call.ret.den > 0)
    /\ ~InGrid(MarchCell) => call.done

\* The step is a render call, and it ran to its end.
Rendered == call.fn = "render" /\ call' # call /\ ~call'.aborted
\* Sprite i of the frame, and its depth along the view direction in 1/1000 cell.
SpritePos(i) == IF i <= Len(enemies) THEN enemies[i].pos ELSE items[i - Len(enemies)].pos
SpriteDepth(i) ==
  ((SpritePos(i).x - player.pos.x) * player.dir.x
     + (SpritePos(i).y - player.pos.y) * player.dir.y) \div U

SameEnemy(i, j) == enemies'[j].id = enemies[i].id

C26_PauseFreezes ==
  [][ (isPaused /\ isPaused') =>
        /\ player'.pos = player.pos
        /\ player'.health = player.health
        /\ player'.ammo = player.ammo
        /\ player'.ammoReserve = player.ammoReserve
        /\ player'.z = player.z
        /\ player'.vz = player.vz
        /\ UNCHANGED << enemies, items, particles, score >>
        /\ lastTime' # lastTime => lastTime' = now' ]_vars

\* C27: the state right after a restart is the initial one: the player at
\* (22, 12) facing (-1, 0) with health 100, clip 10, reserve 20, z = vz = pitch
\* = 0; no enemies, items or particles; score 0; the weapon READY; not paused
\* and not game-over.
C27_RestartIsInitial ==
  [][ restarts' # restarts =>
        /\ player' = [pos |-> [x |-> 22000, y |-> 12000], dir |-> [x |-> 0 - 1000, y |-> 0],
                      health |-> 100, ammo |-> 10, ammoReserve |-> 20,
                      z |-> 0, vz |-> 0, pitch |-> 0]
        /\ enemies' = << >>
        /\ items' = << >>
        /\ particles' = << >>
        /\ score' = 0
        /\ ~isReloading'
        /\ ~isPaused'
        /\ ~isGameOver' ]_vars

\* A session restarted after the player's death, before its next frame.
C27_Redeployed ==
  /\ restarts = 1
  /\ now > 0
  /\ lastTime = now
  /\ lastSpawnTime = now
  /\ player.health = 100
  /\ enemies = << >>
  /\ ~isGameOver

\* Enemy j of the next state is new: no enemy of this state has its id.
NewEnemy(j) == \A i \in 1..Len(enemies) : enemies[i].id # enemies'[j].id

\* C28: there are never more than MAX_ENEMIES = 2 enemies, and an enemy appears
\* only in a frame at least SPAWN_INTERVAL = 2000 ms after the last spawn, at
\* least 5 cells from the player, IDLE and with health 100.
C28_SpawnGuarded ==
  [][ /\ Len(enemies') <= 2
      /\ \A j \in 1..Len(enemies') :
           NewEnemy(j) =>
             /\ now' - lastSpawnTime >= 2000
             /\ Dist(enemies'[j].pos.x - player'.pos.x,
                     enemies'[j].pos.y - player'.pos.y) >= 5000
             /\ enemies'[j].state = 0
             /\ enemies'[j].health = 100
             /\ lastSpawnTime' = now' ]_vars

\* Two living enemies, the second spawned 2 s ago or more: the cap alone holds
\* the next one back.
C28_AtCap ==
  /\ Len(enemies) = 2
  /\ enemies[1].health > 0
  /\ enemies[2].health > 0
  /\ lastTime = now
  /\ now - lastSpawnTime >= 2000

\* C29: whatever entries the texture table lacks, a render call runs to its
\* end, draws a wall slice with some texture at every column, and draws every
\* sprite at the columns where it would be drawn with the full table.
C29_MissingTextureFallsBack ==
  [][ (call.fn = "render" /\ call' # call) =>
        /\ ~call'.aborted
        /\ \A x \in Columns : call'.walls[x] # 0
        /\ Len(call'.sprites) = Len(enemies) + Len(items)
        /\ \A i \in 1..Len(call'.sprites) :
             call'.sprites[i] =
               spriteStripes(player, allSprites(Cur)[i], castWalls(player, Textures), Textures)
     ]_vars

\* Position, state and identity of the enemies of a session.
Where(es) == [i \in 1..Len(es) |-> [id |-> es[i].id, pos |-> es[i].pos, state |-> es[i].state]]

\* C30: two sessions that differ in difficulty only and get the same inputs,
\* timestamps and random choices have the same enemies at the same positions
\* in the same IDLE/CHASE states whenever the player is alive in both.
C30_DifficultyLeavesMovement ==
  (call.fn = "twin" /\ player.health > 0 /\ call.m.player.health > 0) =>
    Where(enemies) = Where(call.m.enemies)

\* After three frames of chase and attacks the player is alive in both sessions
\* with different health, and the guard has closed in.
C30_SameChaseOtherDamage ==
  /\ call.fn = "twin"
  /\ player.health > 0
  /\ call.m.player.health > 0
  /\ player.health # call.m.player.health
  /\ Len(enemies) > 0
  /\ enemies[1].pos.x > 19 * U + 500

\* The aim point's offset from the top of enemy i's projected span, and the
\* height of that span (1/1000 pixel).
AimOffset(i) == crosshairY - drawStartY(player, EnemyDist(player, enemies[i]))
SpanHeight(i) ==
  drawEndY(player, EnemyDist(player, enemies[i])) - drawStartY(player, EnemyDist(player, enemies[i]))

\* C31: a hit takes 100 health (a headshot) iff the aim point lies less than a
\* quarter of the way down the target's projected span, counted from its top,
\* and takes 40 (a body hit) otherwise.
C31_HeadshotZone ==
  [][ Fired =>
        \A i \in Damaged :
          /\ 0 <= AimOffset(i) /\ AimOffset(i) <= SpanHeight(i)
          /\ enemies[i].health - enemies'[i].health =
               (IF 4 * AimOffset(i) < SpanHeight(i) THEN 100 ELSE 40) ]_vars

\* One guard has taken a headshot and the other a body hit.
C31_HeadAndBodyHit ==
  /\ Len(enemies) = 2
  /\ \E i, j \in 1..2 : enemies[i].health = 0 /\ enemies[j].health = 60

\* Enemy i's distance to the player as the AI pass of the step sees it.
SeenDist(i) == Dist(player'.pos.x - enemies[i].pos.x, player'.pos.y - enemies[i].pos.y)

\* C32: an enemy that is IDLE after a step has neither moved nor attacked in
\* it; an enemy that moved or attacked is in CHASE, and it moved only from a
\* distance to the player above the melee range 1.0; the player loses health
\* only in a step in which some enemy attacks.
C32_IdleDoesNothing ==
  [][ /\ \A i \in 1..Len(enemies) : \A j \in 1..Len(enemies') :
           SameEnemy(i, j) =>
             /\ enemies'[j].state = IDLE =>
                  /\ enemies'[j].pos = enemies[i].pos
                  /\ enemies'[j].lastAttackTime = enemies[i].lastAttackTime
                  /\ enemies[i].state = IDLE
             /\ (enemies'[j].pos # enemies[i].pos \/ AttackedAs(i, j)) =>
                  enemies'[j].state = CHASE
             /\ enemies'[j].pos # enemies[i].pos => SeenDist(i) > 1000
      /\ player'.health < player.health =>
           \E i \in Attackers : \E j \in 1..Len(enemies') :
             AttackedAs(i, j) /\ enemies'[j].state = CHASE ]_vars

\* After two frames the idle guard is still IDLE where it spawned, while the
\* chasing guard has closed in to melee range, stopped and hurt the player.
C32_IdleStaysChaserStops ==
  /\ Len(enemies) >= 2
  /\ enemies[1].id = 1 /\ enemies[1].state = IDLE
  /\ enemies[1].pos = [x |-> 16 * U, y |-> 12 * U]
  /\ enemies[2].id = 2 /\ enemies[2].lastAttackTime = now
  /\ Dist(player.pos.x - enemies[2].pos.x, player.pos.y - enemies[2].pos.y) <= 1000
  /\ HasEvent(events, "playerDamage")
  /\ ~HasEvent(events, "enemyShoot")
  /\ now >= 2 * ShortGap

\* Vertical speed and height the frame of the step integrates to, before the
\* landing test.
RisenVz == player.vz - Div(GRAVITY * Min(DT_MAX, now' - now), 1000)
RisenZ == player.z + Div(RisenVz * Min(DT_MAX, now' - now), 1000)

\* C33: the player's height is never negative; a frame that would integrate
\* it below 0 lands the player (z = 0, vz = 0) and any other frame keeps the
\* integrated height and speed; a key press changes the vertical state only
\* when z = 0, and then only the speed.
C33_HeightAndJump ==
  [][ /\ player'.z >= 0
      /\ UpdatePass =>
           IF player.z > 0 \/ player.vz # 0
           THEN IF RisenZ < 0 THEN player'.z = 0 /\ player'.vz = 0
                ELSE player'.z = RisenZ /\ player'.vz = RisenVz
           ELSE player'.z = 0 /\ player'.vz = 0
      /\ now' = now =>
           /\ player'.z = player.z
           /\ player'.vz # player.vz => (player.z = 0 /\ player'.vz = JUMP_FORCE) ]_vars

\* The player has landed from a jump, pressed the key again on the ground and
\* is rising a second time.
C33_LandedAndJumpedAgain ==
  /\ now >= 4 * ShortGap
  /\ player.z = 600
  /\ player.vz = JUMP_FORCE - 2500
  /\ player.health > 0

\* C34: one frame-loop chain is active at any time: the browser holds exactly
\* one animation-frame request, the one requestRef names, however often pause
\* was toggled; an animation frame runs at most one update pass, followed by
\* one render, and never two updates.
C34_OneChain ==
  call.fn = "loop" =>
    /\ Len(call.pending) = 1
    /\ call.pending[1].id = call.requestRef
    /\ call.log \in { << >>, << "render" >>, << "update", "render" >> }

\* Pause was toggled at least twice around two frames, and the second frame
\* ran one update and one render.
C34_ToggledAndRunning ==
  /\ call.fn = "loop"
  /\ now >= 2 * FrameGap
  /\ call.ids >= 5
  /\ call.log = << "update", "render" >>
  /\ ~call.pending[1].env.isPaused

\* Rounds held, in the clip and in reserve, before and after the step.
Rounds == player.ammo + player.ammoReserve
RoundsAfter == player'.ammo + player'.ammoReserve

\* C35: within a session clip + reserve changes only by -1 on a shot fired
\* with infinite-ammo off and by the capped amount of an ammo pickup; a shot
\* with infinite-ammo on, a reload request and every reload completion, a
\* second one from overlapping timers included, leave it unchanged.
C35_RoundsConserved ==
  [][ restarts' = restarts =>
        /\ (Fired /\ ~isInfiniteAmmo) => RoundsAfter = Rounds - 1
        /\ (Fired /\ isInfiniteAmmo) => RoundsAfter = Rounds
        /\ HasEvent(events', "ammoPickup") =>
             /\ player'.ammo = player.ammo
             /\ player'.ammoReserve >= player.ammoReserve
             /\ player'.ammoReserve <= MAX_RESERVE
             /\ player'.ammoReserve - player.ammoReserve <=
                  CLIP_SIZE * CountEvents(events', "ammoPickup")
        /\ (~Fired /\ ~HasEvent(events', "ammoPickup")) => RoundsAfter = Rounds
        /\ Completes => RoundsAfter = Rounds ]_vars

\* Two reloads of one session overlap: the first completion has filled the
\* clip from 3 to 10 (reserve 20 to 13) and made the weapon READY, a shot has
\* been fired since, and the second completion is still to come.
C35_SecondCompletionDue ==
  /\ restarts = 0
  /\ Len(timers) = 1
  /\ ~timers[1].stale
  /\ ~isReloading
  /\ now >= RELOAD_TIME
  /\ player.ammo = 9
  /\ player.ammoReserve = 13

\* The enemies the step killed: alive before it, health <= 0 after it.
Killed == {i \in Damaged : enemies[i].health > 0 /\ enemies'[i].health <= 0}

\* C36: an enemy is killed at most once.  Within a session every shot damages
\* live enemies only; the score rises only with a kill, by 1 or 2, together
\* with exactly one dropped item, and a shot without a kill drops nothing; no
\* other step raises or lowers the score; an enemy's health never rises, and
\* a new enemy gets an id above every id in use, so no id is killed twice.
C36_KilledOnce ==
  [][ restarts' = restarts =>
        /\ score' >= score
        /\ Fired =>
             /\ \A i \in Damaged : enemies[i].health > 0
             /\ Cardinality(Killed) <= 1
             /\ Len(items') = Len(items) + Cardinality(Killed)
             /\ IF Killed = {} THEN score' = score ELSE score' - score \in {1, 2}
        /\ ~Fired => (score' = score /\ Len(items') <= Len(items))
        /\ \A j \in 1..Len(enemies') :
             \/ \E i \in 1..Len(enemies) :
                  /\ enemies[i].id = enemies'[j].id
                  /\ enemies'[j].health <= enemies[i].health
             \/ /\ enemies'[j].id = enemyIdCounter'
                /\ enemyIdCounter' > enemyIdCounter
                /\ \A i \in 1..Len(enemies) : enemies[i].id <= enemyIdCounter ]_vars

\* A shot has gone through a guard that lies dead in the line of fire, not yet
\* filtered out: nothing was hit, and its kill still counts once.
C36_ShotThroughTheDead ==
  /\ restarts = 0
  /\ HasEvent(events, "shoot")
  /\ ~HasEvent(events, "enemyDeath")
  /\ ~HasEvent(events, "enemyHit")
  /\ score = 1
  /\ Len(items) = 1
  /\ \E i \in 1..Len(enemies) :
       /\ enemies[i].health <= 0
       /\ InAimAnyHealth(player, enemies[i])
       /\ InVerticalSpan(player, EnemyDist(player, enemies[i]))

\* C37: the player and every enemy stand in an empty cell of the grid, after
\* any frames and any movement keys, given that they started or spawned in one.
C37_InEmptyCells ==
  /\ IsEmpty(MapAt(player.pos.x, player.pos.y))
  /\ \A i \in 1..Len(enemies) : IsEmpty(MapAt(enemies[i].pos.x, enemies[i].pos.y))

\* The player, walking diagonally into the pillar from its corner, has made the
\* X part of the step (0.212 cell) and was stopped on Y; the guard chasing from
\* the far side was stopped on X by the pillar and has moved on Y.
C37_BothStoppedByPillar ==
  /\ now >= FrameGap
  /\ player.pos.x = 9900 + 212
  /\ player.pos.y = 4900
  /\ Len(enemies) >= 1
  /\ enemies[1].id = 1
  /\ enemies[1].pos.x = 12100
  /\ enemies[1].pos.y < 6500

\* C38: for two points in empty cells of the grid, hasLineOfSight gives the
\* same answer in both directions.
C38_SightSymmetric ==
  (/\ call.fn = "sightBothWays"
   /\ call.done
   /\ IsEmpty(MapAt(call.p1.x, call.p1.y))
   /\ IsEmpty(MapAt(call.p2.x, call.p2.y))) => call.ret[1] = call.ret[2]

\* C39: with the player's health <= 0, the first unpaused frame sets
\* game-over, and until a restart no step changes the player's position,
\* health or view, the enemies, the items or the score.
C39_DeadThenGameOver ==
  [][ /\ (player.health <= 0 /\ now' > now /\ ~tickEnv.isPaused) => isGameOver'
      /\ (player.health <= 0 /\ restarts' = restarts) =>
           /\ player'.pos = player.pos
           /\ player'.health = player.health
           /\ player'.dir = player.dir
           /\ player'.pitch = player.pitch
           /\ enemies' = enemies
           /\ items' = items
           /\ score' = score ]_vars

\* C40: a weapon that is RELOADING returns to READY: every accepted reload
\* request is followed by a state with isReloading = false, whether the player
\* dies, pauses or restarts in the meantime, given that frames keep coming and
\* due timers fire.
C40_ReloadEnds == isReloading ~> ~isReloading

\* A reload requested at time 0 has completed at its deadline, after the
\* player died: the clip is full and the weapon READY.
C40_CompletedWhileDead ==
  /\ now = RELOAD_TIME
  /\ player.health <= 0
  /\ player.ammo = CLIP_SIZE
  /\ ~isReloading
  /\ timers = << >>

====
